---- MODULE Spec2Model ----
(***************************************************************************)
(* A model of the unai library: the Agent tool-execution loop              *)
(* (src/src/agent.rs) and the streaming paths of the vendor adapters       *)
(* (src/src/api/openai.rs, src/src/api/gemini.rs).                         *)
(*                                                                         *)
(* Strings that the code concatenates are sequences of one-character       *)
(* strings; Option<T> is a sequence of length 0 (None) or 1 (Some).        *)
(***************************************************************************)
EXTENDS Naturals, Integers, Sequences, FiniteSets, TLC

VARIABLES
    pc,                  \* position of the Agent / of the chat invocation
    mode,                \* "none" | "chat" | "chat_stream"
    max_iterations,      \* Agent.max_iterations
    server,              \* Agent.server is Some(..)
    overridden,          \* with_max_iterations has been called
    input,               \* the caller's messages argument, as passed
    resources,           \* resource URIs still to load
    messages,            \* the conversation history of the invocation
    new_messages,        \* chat: the output trace
    tools,               \* the tool list obtained by get_tools
    total_usage,         \* running usage total
    iteration,           \* loop variable of the for loop
    response,            \* chat: the response being processed
    msg_idx,             \* chat: index of the next message of response.data
    pending,             \* FunctionCall parts of the current message not yet executed
    tool_calls_executed, \* the flag of the same name
    stream,              \* chat_stream: items the adapter stream still holds
    accumulated_message, \* chat_stream: the accumulator of the iteration
    finish_reason,       \* chat_stream: Option<FinishReason> of the iteration
    request_base_usage,  \* chat_stream: total_usage at the start of the iteration
    yielded,             \* chat_stream: items yielded to the caller so far
    result,              \* what the invocation returned
    requests,            \* log: the arguments of every adapter request
    tool_log,            \* log: every execute_tool with its outcome
    list_calls,          \* log: number of list_tools calls on the server
    replies,             \* log: what the adapter returned to each successful request
    reply_meta,          \* log: the usage and the finish reason of each Response of chat
    loaded,              \* log: the messages load_resources pushed
    adapter,             \* request_stream of an adapter: "none" | "openai" | "gemini"
    wire,                \* SSE events the HTTP response still holds
    consumed,            \* log: the well-formed chunks decoded so far
    current_response,    \* OpenAIStream: the growing Response
    tool_index_map,      \* OpenAIStream: tool_call.index -> position in parts
    current_text_part_index, \* OpenAIStream: Option<usize>
    emitted,             \* items the adapter stream has yielded
    stream_state,        \* "idle" | "open" | "ended" | "failed"
    servers,             \* MultiMCPServer.servers: id -> member
    mcp_ops,             \* log: every operation on the aggregator, with the members it contacted
    byte_stream,         \* sse: chunks the HTTP body still holds
    buffer,              \* sse: the String of the unfold state
    stream_ended,        \* sse: the bool of the unfold state
    sse_state,           \* sse: "idle" | "open" | "closed"
    sse_received,        \* log: the bytes the body delivered so far
    sse_items,           \* log: the items the SSE stream yielded
    conversion,          \* the last mapping an adapter applied, with its input
    options,             \* a TransportOptions value under construction
    builder_calls,       \* log: the builder calls applied to options
    invocations          \* the locals of chat invocations running on one Agent

vars == <<pc, mode, max_iterations, server, overridden, input, resources,
          messages, new_messages, tools, total_usage, iteration, response,
          msg_idx, pending, tool_calls_executed, stream, accumulated_message,
          finish_reason, request_base_usage, yielded, result, requests,
          tool_log, list_calls, replies, reply_meta, loaded, adapter, wire, consumed,
          current_response, tool_index_map, current_text_part_index, emitted,
          stream_state, servers, mcp_ops, byte_stream, buffer, stream_ended,
          sse_state, sse_received, sse_items, conversion, options, builder_calls,
          invocations>>

configVars == <<max_iterations, server, overridden>>
streamVars == <<stream, accumulated_message, finish_reason, request_base_usage, yielded>>
adapterVars == <<adapter, wire, consumed, current_response, tool_index_map,
                 current_text_part_index, emitted, stream_state>>
mcpVars == <<servers, mcp_ops>>
sseVars == <<byte_stream, buffer, stream_ended, sse_state, sse_received, sse_items>>
wireVars == <<conversion>>
optVars == <<options, builder_calls>>
pairVars == <<invocations>>
libVars == <<mcpVars, sseVars, wireVars, optVars, pairVars>>

(***************************************************************************)
(* Bounds                                                                  *)
(***************************************************************************)
\* with_max_iterations is explored for 0..MaxIterations, and a chat is
\* entered only when max_iterations is at most MaxIterations.
MaxIterations == 2

(***************************************************************************)
(* Data model                                                              *)
(***************************************************************************)
None == <<>>
Some(x) == <<x>>

Str(s) == <<s>>

JString(s) == [t |-> "String", s |-> s]
JObject(fields) == [t |-> "Object", fields |-> fields]
EmptyObject == JObject(<<>>)
ErrorObject(e) == JObject(<< <<"error", e>> >>)

Text(c) == [kind |-> "Text", content |-> c]
FunctionCall(id, name, args) ==
    [kind |-> "FunctionCall", id |-> id, name |-> name, arguments |-> args]
FunctionResponse(id, name, resp) ==
    [kind |-> "FunctionResponse", id |-> id, name |-> name, response |-> resp]

User(parts) == [role |-> "User", parts |-> parts]
Assistant(parts) == [role |-> "Assistant", parts |-> parts]

Usage(p, c) == [prompt_tokens |-> p, completion_tokens |-> c]

OptAdd(a, b) == IF a = None /\ b = None THEN None
                ELSE Some((IF a = None THEN 0 ELSE a[1]) + (IF b = None THEN 0 ELSE b[1]))

UsageAdd(a, b) == Usage(OptAdd(a.prompt_tokens, b.prompt_tokens),
                        OptAdd(a.completion_tokens, b.completion_tokens))

\* impl Default for TransportOptions
TransportOptionsDefault == [timeout |-> None, proxy |-> None, headers |-> None]

\* A chat invocation that has not been entered: no locals yet.
Callers == {1, 2}
NotStarted == [pc |-> "idle"]

ConfigError(m) == [status |-> "Err", kind |-> "Config", msg |-> m]
ProviderError(m) == [status |-> "Err", kind |-> "ProviderError", msg |-> m]
Pending == [status |-> "Pending"]

(***************************************************************************)
(* Generic sequence helpers                                                *)
(***************************************************************************)
\* Faulty variant of SelectCalls: the calls are taken up last part first.
RECURSIVE SelectCallsReversed(_)
SelectCallsReversed(parts) ==
    IF parts = <<>> THEN <<>>
    ELSE SelectCallsReversed(Tail(parts))
         \o (IF Head(parts).kind = "FunctionCall" THEN <<Head(parts)>> ELSE <<>>)

\* The FunctionCall parts in the order of `for part in msg.parts()`.
RECURSIVE SelectCalls(_)
SelectCalls(parts) ==
    IF parts = <<>> THEN <<>>
    ELSE (IF Head(parts).kind = "FunctionCall" THEN <<Head(parts)>> ELSE <<>>)
         \o SelectCalls(Tail(parts))

RECURSIVE Flatten(_)
Flatten(ss) == IF ss = <<>> THEN <<>> ELSE Head(ss) \o Flatten(Tail(ss))

(***************************************************************************)
(* The environment: what the adapter, the tool server and the caller can   *)
(* do.                                                                     *)
(***************************************************************************)
ArgsObj == JObject(<< <<"k", "1">> >>)

CallA == FunctionCall(Some("c1"), Str("f"), ArgsObj)
CallB == FunctionCall(Some("c2"), Str("g"), ArgsObj)
CallNoId == FunctionCall(None, Str("f"), ArgsObj)

\* Responses a Client::request may return (Ok case).
Responses ==
    { [data |-> <<Assistant(<<Text(Str("a"))>>)>>,
       usage |-> Some(Usage(Some(1), Some(2))), finish |-> "Stop"],
      [data |-> <<>>, usage |-> None, finish |-> "Stop"],
      [data |-> <<Assistant(<<Text(Str("a")), CallA>>)>>,
       usage |-> Some(Usage(Some(1), Some(1))), finish |-> "ToolCalls"],
      [data |-> <<Assistant(<<CallA, CallB>>)>>,
       usage |-> None, finish |-> "ToolCalls"],
      [data |-> <<Assistant(<<CallNoId>>), Assistant(<<Text(Str("b"))>>)>>,
       usage |-> Some(Usage(Some(2), Some(1))), finish |-> "Stop"] }

InputMessages == { <<>>, <<User(<<Text(Str("q"))>>)>> }
ResourceLists == { <<>>, <<"u">>, <<"u", "v">> }

\* Outcomes of McpServer::read_resource: an error, or the contents.
ReadOutcomes ==
    { [ok |-> FALSE, contents |-> <<>>],
      [ok |-> TRUE, contents |-> <<[kind |-> "text", uri |-> "u", text |-> "x"]>>],
      [ok |-> TRUE, contents |-> <<[kind |-> "blob", uri |-> "u", text |-> ""]>>] }

\* Outcomes of McpServer::list_tools.
ListOutcomes == { [ok |-> TRUE, tools |-> <<"f", "g">>], [ok |-> FALSE, tools |-> <<>>] }

\* Outcomes of McpServer::call_tool.
ToolOutcomes == { [ok |-> TRUE, value |-> JObject(<< <<"r", "1">> >>), err |-> ""],
                  [ok |-> FALSE, value |-> EmptyObject, err |-> "boom"] }

NoServerOutcome == [ok |-> FALSE, value |-> EmptyObject, err |-> "No MCP server configured"]

(***************************************************************************)
(* Agent construction                                                      *)
(***************************************************************************)
DefaultMaxIterations == 10

Init ==
    /\ pc = "built"
    /\ mode = "none"
    /\ max_iterations = DefaultMaxIterations
    /\ server = FALSE
    /\ overridden = FALSE
    /\ input = <<>>
    /\ resources = <<>>
    /\ messages = <<>>
    /\ new_messages = <<>>
    /\ tools = <<>>
    /\ total_usage = Usage(Some(0), Some(0))
    /\ iteration = 0
    /\ response = [data |-> <<>>, usage |-> None, finish |-> "Unfinished"]
    /\ msg_idx = 1
    /\ pending = <<>>
    /\ tool_calls_executed = FALSE
    /\ stream = <<>>
    /\ accumulated_message = Assistant(<<>>)
    /\ finish_reason = None
    /\ request_base_usage = Usage(Some(0), Some(0))
    /\ yielded = <<>>
    /\ result = Pending
    /\ requests = <<>>
    /\ tool_log = <<>>
    /\ list_calls = 0
    /\ replies = <<>>
    /\ reply_meta = <<>>
    /\ loaded = <<>>
    /\ adapter = "none"
    /\ wire = <<>>
    /\ consumed = <<>>
    /\ current_response = [data |-> <<Assistant(<<>>)>>, usage |-> Usage(None, None),
                           finish |-> "Unfinished"]
    /\ tool_index_map = <<>>
    /\ current_text_part_index = None
    /\ emitted = <<>>
    /\ stream_state = "idle"
    /\ servers = <<>>
    /\ mcp_ops = <<>>
    /\ byte_stream = <<>>
    /\ buffer = <<>>
    /\ stream_ended = FALSE
    /\ sse_state = "idle"
    /\ sse_received = <<>>
    /\ sse_items = <<>>
    /\ conversion = <<>>
    /\ options = TransportOptionsDefault
    /\ builder_calls = <<>>
    /\ invocations = [i \in Callers |-> NotStarted]

runVars == <<input, resources, messages, new_messages, tools, total_usage,
             iteration, response, msg_idx, pending, tool_calls_executed,
             result, requests, tool_log, list_calls, replies, reply_meta, loaded>>

WithServer ==
    /\ pc = "built"
    /\ ~server
    /\ server' = TRUE
    /\ UNCHANGED <<pc, mode, max_iterations, overridden, runVars, streamVars, adapterVars, libVars>>

WithMaxIterations(max) ==
    /\ pc = "built"
    /\ ~overridden
    /\ max_iterations' = max
    /\ overridden' = TRUE
    /\ UNCHANGED <<pc, mode, server, runVars, streamVars, adapterVars, libVars>>

(***************************************************************************)
(* Agent::chat                                                             *)
(***************************************************************************)
\* Entry of chat: the arguments are bound, new_messages is empty.
Chat(msgs, res) ==
    /\ pc = "built"
    /\ max_iterations <= MaxIterations
    /\ mode' = "chat"
    /\ input' = msgs
    /\ messages' = msgs
    /\ resources' = res
    /\ new_messages' = <<>>
    /\ pc' = "load_resources"
    /\ UNCHANGED <<configVars, tools, total_usage, iteration, response, msg_idx,
                   pending, tool_calls_executed, result, requests, tool_log,
                   list_calls, replies, reply_meta, loaded, streamVars, adapterVars, libVars>>

\* Messages load_resources pushes for the contents of one read resource.
RECURSIVE ResourceMessages(_)
ResourceMessages(contents) ==
    IF contents = <<>> THEN <<>>
    ELSE (IF Head(contents).kind = "text"
          THEN <<User(<<Text(<<"Resource ", Head(contents).uri, ":\n", Head(contents).text>>)>>)>>
          ELSE <<>>)
         \o ResourceMessages(Tail(contents))

\* Agent::read_resource: an error without a server.
ReadResourceOutcomes == IF server THEN ReadOutcomes ELSE { [ok |-> FALSE, contents |-> <<>>] }

\* The messages from start_len on, copied once load_resources has returned.
CopiedAfterLoad(history, start_len) == SubSeq(history, start_len + 1, Len(history))

\* One round of the loop of load_resources (one read_resource().await).  When
\* it was the last round, the messages added since start_len are copied to
\* new_messages (chat) or yielded (chat_stream) before get_tools is awaited.
LoadResource ==
    /\ pc = "load_resources"
    /\ resources # <<>>
    /\ \E o \in ReadResourceOutcomes :
          LET added == IF o.ok THEN ResourceMessages(o.contents) ELSE <<>>
              history == messages \o added
              copied == CopiedAfterLoad(history, Len(input))
          IN /\ messages' = history
             /\ loaded' = loaded \o added
             /\ new_messages' = IF mode = "chat" /\ Tail(resources) = <<>>
                                THEN new_messages \o copied ELSE new_messages
             /\ yielded' = IF mode = "chat_stream" /\ Tail(resources) = <<>>
                           THEN yielded \o [i \in 1..Len(copied) |->
                                              [chunk |-> "Data", message |-> copied[i]]]
                           ELSE yielded
    /\ resources' = Tail(resources)
    /\ UNCHANGED <<pc, mode, configVars, input, tools, total_usage, iteration, response,
                   msg_idx, pending, tool_calls_executed, result, requests, tool_log,
                   list_calls, replies, reply_meta, stream, accumulated_message, finish_reason,
                   request_base_usage, adapterVars, libVars>>

\* Agent::get_tools, and the initialisation of total_usage.
GetTools ==
    /\ pc = "load_resources"
    /\ resources = <<>>
    /\ IF server
       THEN \E o \in ListOutcomes :
               /\ tools' = (IF o.ok THEN o.tools ELSE <<>>)
               /\ list_calls' = list_calls + 1
       ELSE tools' = <<>> /\ list_calls' = list_calls
    /\ total_usage' = Usage(Some(0), Some(0))
    /\ iteration' = 0
    /\ pc' = "loop"
    /\ UNCHANGED <<mode, configVars, input, resources, messages, new_messages, response,
                   msg_idx, pending, tool_calls_executed, result, requests, tool_log,
                   replies, reply_meta, loaded, streamVars, adapterVars, libVars>>

\* Faulty variant of LoopContinues: the body runs before the bound is looked at.
LoopContinuesAtLeastOnce == iteration = 0 \/ iteration < max_iterations
\* Faulty variant of LoopContinues: one round too many.
LoopContinuesOffByOne == iteration <= max_iterations
\* for iteration in 0..self.max_iterations: the loop has another round.
LoopContinues == iteration < max_iterations

\* Faulty variant of LoopExhausted: control never leaves the loop at its end.
LoopExhaustedNever == FALSE
\* The range 0..self.max_iterations is used up: control falls out of the for loop.
LoopExhausted == ~LoopContinues

\* The for loop is exhausted: the Configuration error.
MaxIterationsReached ==
    /\ pc = "loop"
    /\ LoopExhausted
    /\ result' = ConfigError("Max iterations reached in agent loop")
    /\ pc' = "done"
    /\ UNCHANGED <<mode, configVars, input, resources, messages, new_messages, tools,
                   total_usage, iteration, response, msg_idx, pending,
                   tool_calls_executed, requests, tool_log, list_calls, replies, reply_meta, loaded,
                   streamVars, adapterVars, libVars>>

\* Faulty variant of RequestHistory: the trace alone, without the caller's input.
RequestHistoryTraceOnly(history, start_len) == CopiedAfterLoad(history, start_len)
\* The history handed to the adapter: messages.clone().
RequestHistory(history, start_len) == history

\* The errors Client::request and StreamingClient::request_stream may return.
RequestErrors ==
    { [status |-> "Err", kind |-> "Http", msg |-> "connection failed"],
      [status |-> "Err", kind |-> "Parse", msg |-> "malformed body"],
      ProviderError("request failed") }

\* Faulty variant of RequestEntry: the request is made without the tool list.
RequestEntryNoTools(error) ==
    [messages |-> RequestHistory(messages, Len(input)), tools |-> <<>>, error |-> error]
\* The log entry of one adapter request: the history and the tools it was given,
\* and the error it returned, if any.
RequestEntry(error) ==
    [messages |-> RequestHistory(messages, Len(input)), tools |-> tools, error |-> error]

\* Faulty variant of RequestErrorExit: the loop goes round again after a failure.
RequestErrorRetry == "loop"
\* The `?` on the adapter's result: an error leaves the call.
RequestErrorExit == "done"

\* Faulty variant of AddResponseUsage: the total is the usage of the latest response.
AddResponseUsageLatest(total, usage) == IF usage # None THEN usage[1] ELSE total
\* if let Some(usage) = &response.usage { total_usage += usage.clone(); }
AddResponseUsage(total, usage) == IF usage # None THEN UsageAdd(total, usage[1]) ELSE total

\* self.client.request(messages.clone(), tools.clone()).await? and the usage total.
Request ==
    /\ pc = "loop"
    /\ mode = "chat"
    /\ LoopContinues
    /\ \/ \E e \in RequestErrors :
          /\ requests' = Append(requests, RequestEntry(Some(e)))
          /\ result' = e
          /\ pc' = RequestErrorExit
          /\ UNCHANGED <<response, total_usage, tool_calls_executed, msg_idx, pending,
                         replies, reply_meta>>
       \/ \E r \in Responses :
            /\ requests' = Append(requests, RequestEntry(None))
            /\ response' = r
            /\ replies' = Append(replies, r.data)
            /\ reply_meta' = Append(reply_meta, [usage |-> r.usage, finish |-> r.finish])
            /\ total_usage' = AddResponseUsage(total_usage, r.usage)
            /\ tool_calls_executed' = FALSE
            /\ msg_idx' = 1
            /\ pending' = <<>>
            /\ pc' = "process"
            /\ UNCHANGED result
    /\ UNCHANGED <<mode, configVars, input, resources, messages, new_messages, tools,
                   iteration, tool_log, list_calls, loaded, streamVars, adapterVars, libVars>>

\* new_messages.push(msg.clone())
TraceWith(trace, msg) == Append(trace, msg)

\* for msg in response.data: push the message to history and trace.
ProcessMessage ==
    /\ pc = "process"
    /\ mode = "chat"
    /\ pending = <<>>
    /\ msg_idx <= Len(response.data)
    /\ messages' = Append(messages, response.data[msg_idx])
    /\ new_messages' = TraceWith(new_messages, response.data[msg_idx])
    /\ pending' = SelectCalls(response.data[msg_idx].parts)
    /\ msg_idx' = msg_idx + 1
    /\ UNCHANGED <<pc, mode, configVars, input, resources, tools, total_usage, iteration,
                   response, tool_calls_executed, result, requests, tool_log, list_calls,
                   replies, reply_meta, loaded, streamVars, adapterVars, libVars>>

\* Agent::execute_tool: the server's answer, or the error without a server.
ExecuteToolOutcomes == IF server THEN ToolOutcomes ELSE {NoServerOutcome}

\* Faulty variant of ResponsePart: a failure is not turned into an "error" object.
ResponsePartNoError(call, o) == FunctionResponse(call.id, call.name, o.value)
\* Faulty variant of ResponsePart: the id of the call is not echoed.
ResponsePartNoId(call, o) ==
    IF o.ok THEN FunctionResponse(None, call.name, o.value)
    ELSE FunctionResponse(None, call.name, ErrorObject(o.err))
\* The response part built from the outcome of execute_tool.
ResponsePart(call, o) ==
    IF o.ok THEN FunctionResponse(call.id, call.name, o.value)
    ELSE FunctionResponse(call.id, call.name, ErrorObject(o.err))

\* Faulty variant of ResponseMessages: the response is not appended.
ResponseMessagesNone(call, o) == <<>>
\* The message pushed for one executed call: Message::User(vec![response_part]).
ResponseMessages(call, o) == <<User(<<ResponsePart(call, o)>>)>>

LogEntry(call, args, o) ==
    [name |-> call.name, arguments |-> args, id |-> call.id, dispatched |-> server,
     ok |-> o.ok, err |-> o.err, iteration |-> iteration]

\* One FunctionCall part: execute the tool and push the response message.
ExecuteTool ==
    /\ pc = "process"
    /\ mode = "chat"
    /\ pending # <<>>
    /\ LET call == Head(pending) IN
       \E o \in ExecuteToolOutcomes :
          /\ tool_calls_executed' = TRUE
          /\ tool_log' = Append(tool_log, LogEntry(call, call.arguments, o))
          /\ messages' = messages \o ResponseMessages(call, o)
          /\ new_messages' = new_messages \o ResponseMessages(call, o)
    /\ pending' = Tail(pending)
    /\ UNCHANGED <<pc, mode, configVars, input, resources, tools, total_usage, iteration,
                   response, msg_idx, result, requests, list_calls, replies, reply_meta, loaded,
                   streamVars, adapterVars, libVars>>

\* Faulty variant of LoopDone: a response without a call does not end the loop.
LoopDoneNever == FALSE
\* if !tool_calls_executed: the loop is done.
LoopDone == ~tool_calls_executed

\* The end of the loop body: return the trace, or go round again.
EndIteration ==
    /\ pc = "process"
    /\ mode = "chat"
    /\ pending = <<>>
    /\ msg_idx > Len(response.data)
    /\ IF LoopDone
       THEN /\ result' = [status |-> "Ok", data |-> new_messages,
                          usage |-> Some(total_usage), finish |-> response.finish]
            /\ pc' = "done"
            /\ UNCHANGED iteration
       ELSE /\ iteration' = iteration + 1
            /\ pc' = "loop"
            /\ UNCHANGED result
    /\ UNCHANGED <<mode, configVars, input, resources, messages, new_messages, tools,
                   total_usage, response, msg_idx, pending, tool_calls_executed,
                   requests, tool_log, list_calls, replies, reply_meta, loaded, streamVars,
                   adapterVars, libVars>>

(***************************************************************************)
(* Agent::chat_stream                                                      *)
(***************************************************************************)
Data(m) == [chunk |-> "Data", message |-> m]
UsageChunk(u) == [chunk |-> "Usage", usage |-> u]
Finish(r) == [chunk |-> "Finish", reason |-> r]
StreamErr == [chunk |-> "Err"]

\* serde_json::from_str on an argument buffer: the well-formed texts over the
\* alphabet { "{", "k", "}" } are "{}" and "{k}" (k stands for "k":"1").
ParseJson(s) ==
    IF s = <<"{", "}">> THEN [ok |-> TRUE, value |-> EmptyObject]
    ELSE IF s = <<"{", "k", "}">> THEN [ok |-> TRUE, value |-> ArgsObj]
    ELSE [ok |-> FALSE, value |-> EmptyObject]

\* Item sequences a StreamingClient::request_stream may produce (Ok case).
Streams ==
    { <<Data(Assistant(<<Text(Str("a"))>>)), Data(Assistant(<<Text(Str("b"))>>)),
        UsageChunk(Usage(Some(1), Some(2))), Finish("Stop")>>,
      <<Data(Assistant(<<FunctionCall(Some("c1"), Str("f"), JString(<<"{">>))>>)),
        Data(Assistant(<<FunctionCall(None, <<>>, JString(<<"k", "}">>))>>)),
        Finish("ToolCalls")>>,
      <<Data(Assistant(<<FunctionCall(None, Str("f"), ArgsObj)>>)),
        Data(Assistant(<<FunctionCall(None, Str("g"), ArgsObj)>>)),
        UsageChunk(Usage(Some(1), Some(1))), Finish("Stop")>>,
      <<Data(Assistant(<<Text(Str("a")), FunctionCall(Some("c2"), Str("g"), JString(<<"{">>))>>))>>,
      <<Data(Assistant(<<Text(Str("a"))>>)), StreamErr>>,
      <<UsageChunk(Usage(Some(1), Some(100))), UsageChunk(Usage(Some(1), Some(120))),
        UsageChunk(Usage(Some(1), Some(150))), Finish("Stop")>>,
      <<>> }

\* Entry of chat_stream.
ChatStream(msgs, res) ==
    /\ pc = "built"
    /\ max_iterations <= MaxIterations
    /\ mode' = "chat_stream"
    /\ input' = msgs
    /\ messages' = msgs
    /\ resources' = res
    /\ pc' = "load_resources"
    /\ UNCHANGED <<configVars, new_messages, tools, total_usage, iteration, response,
                   msg_idx, pending, tool_calls_executed, result, requests, tool_log,
                   list_calls, replies, reply_meta, loaded, streamVars, adapterVars, libVars>>

\* self.client.request_stream(messages.clone(), tools.clone()).await? and the
\* per-iteration accumulator.
StreamRequest ==
    /\ pc = "loop"
    /\ mode = "chat_stream"
    /\ LoopContinues
    /\ \/ \E e \in RequestErrors :
          /\ requests' = Append(requests, RequestEntry(Some(e)))
          /\ result' = e
          /\ pc' = RequestErrorExit
          /\ UNCHANGED <<stream, accumulated_message, finish_reason, request_base_usage,
                         replies, reply_meta>>
       \/ \E s \in Streams :
            /\ requests' = Append(requests, RequestEntry(None))
            /\ stream' = s
            /\ replies' = Append(replies, s)
            /\ reply_meta' = reply_meta
            /\ accumulated_message' = Assistant(<<>>)
            /\ finish_reason' = None
            /\ request_base_usage' = total_usage
            /\ pc' = "stream"
            /\ UNCHANGED result
    /\ UNCHANGED <<mode, configVars, input, resources, messages, new_messages, tools,
                   total_usage, iteration, response, msg_idx, pending,
                   tool_calls_executed, tool_log, list_calls, loaded, yielded,
                   adapterVars, libVars>>

\* The merge of one part of a Data chunk into the accumulator's parts.
MergePart(target, part) ==
    LET n == Len(target) IN
    IF n > 0 /\ target[n].kind = "Text" /\ part.kind = "Text"
    THEN [target EXCEPT ![n].content = @ \o part.content]
    ELSE IF /\ n > 0
            /\ target[n].kind = "FunctionCall" /\ part.kind = "FunctionCall"
            /\ target[n].arguments.t = "String" /\ part.arguments.t = "String"
    THEN [target EXCEPT ![n].arguments.s = @ \o part.arguments.s]
    ELSE Append(target, part)

RECURSIVE MergeParts(_, _)
MergeParts(target, parts) ==
    IF parts = <<>> THEN target
    ELSE MergeParts(MergePart(target, Head(parts)), Tail(parts))

\* One stream.next().await and the match on the chunk.
StreamNext ==
    /\ pc = "stream"
    /\ stream # <<>>
    /\ LET chunk == Head(stream) IN
       /\ stream' = Tail(stream)
       /\ CASE chunk.chunk = "Err" ->
                 /\ result' = ProviderError("stream failed")
                 /\ pc' = "done"
                 /\ UNCHANGED <<accumulated_message, total_usage, finish_reason, yielded>>
            [] chunk.chunk = "Data" ->
                 /\ yielded' = Append(yielded, Data(chunk.message))
                 /\ accumulated_message' =
                        [accumulated_message EXCEPT !.parts = MergeParts(@, chunk.message.parts)]
                 /\ UNCHANGED <<pc, result, total_usage, finish_reason>>
            [] chunk.chunk = "Usage" ->
                 /\ total_usage' = UsageAdd(request_base_usage, chunk.usage)
                 /\ yielded' = Append(yielded, UsageChunk(UsageAdd(request_base_usage, chunk.usage)))
                 /\ UNCHANGED <<pc, result, accumulated_message, finish_reason>>
            [] chunk.chunk = "Finish" ->
                 /\ finish_reason' = Some(chunk.reason)
                 /\ UNCHANGED <<pc, result, accumulated_message, total_usage, yielded>>
    /\ UNCHANGED <<mode, configVars, input, resources, messages, new_messages, tools,
                   iteration, response, msg_idx, pending, tool_calls_executed, requests,
                   tool_log, list_calls, replies, reply_meta, loaded, request_base_usage, adapterVars, libVars>>

\* Faulty variant of StreamEnd: the accumulated message is not pushed.
StreamEndNoPush ==
    /\ pc = "stream"
    /\ stream = <<>>
    /\ tool_calls_executed' = FALSE
    /\ pending' = SelectCalls(accumulated_message.parts)
    /\ pc' = "process"
    /\ UNCHANGED <<mode, configVars, input, resources, messages, new_messages, tools,
                   total_usage, iteration, response, msg_idx, result, requests, tool_log,
                   list_calls, replies, reply_meta, loaded, streamVars, adapterVars, libVars>>

\* The stream has ended: push the accumulated message to history.
StreamEnd ==
    /\ pc = "stream"
    /\ stream = <<>>
    /\ messages' = Append(messages, accumulated_message)
    /\ tool_calls_executed' = FALSE
    /\ pending' = SelectCalls(accumulated_message.parts)
    /\ pc' = "process"
    /\ UNCHANGED <<mode, configVars, input, resources, new_messages, tools, total_usage,
                   iteration, response, msg_idx, result, requests, tool_log, list_calls,
                   replies, reply_meta, loaded, streamVars, adapterVars, libVars>>

\* Faulty variant of ArgsValue: the argument buffer is handed over as it is.
ArgsValueRaw(arguments) == arguments
\* The arguments handed to execute_tool in the streaming path.
ArgsValue(arguments) ==
    IF arguments.t = "String"
    THEN (IF ParseJson(arguments.s).ok THEN ParseJson(arguments.s).value ELSE EmptyObject)
    ELSE arguments

\* One FunctionCall part of the accumulated message.
StreamExecuteTool ==
    /\ pc = "process"
    /\ mode = "chat_stream"
    /\ pending # <<>>
    /\ LET call == Head(pending) IN
       \E o \in ExecuteToolOutcomes :
          /\ tool_calls_executed' = TRUE
          /\ tool_log' = Append(tool_log, LogEntry(call, ArgsValue(call.arguments), o))
          /\ messages' = messages \o ResponseMessages(call, o)
          /\ yielded' = yielded \o [i \in 1..Len(ResponseMessages(call, o)) |->
                                        Data(ResponseMessages(call, o)[i])]
    /\ pending' = Tail(pending)
    /\ UNCHANGED <<pc, mode, configVars, input, resources, new_messages, tools, total_usage,
                   iteration, response, msg_idx, result, requests, list_calls, replies, reply_meta,
                   loaded, stream, accumulated_message, finish_reason, request_base_usage,
                   adapterVars, libVars>>

\* Faulty variant of StreamEndIteration: the finish reason of every iteration is
\* forwarded.
StreamEndIterationForwards ==
    /\ pc = "process"
    /\ mode = "chat_stream"
    /\ pending = <<>>
    /\ yielded' = IF finish_reason # None
                  THEN Append(yielded, Finish(finish_reason[1])) ELSE yielded
    /\ IF LoopDone
       THEN /\ result' = [status |-> "Ok"]
            /\ pc' = "done"
            /\ UNCHANGED iteration
       ELSE /\ iteration' = iteration + 1
            /\ pc' = "loop"
            /\ UNCHANGED result
    /\ UNCHANGED <<mode, configVars, input, resources, messages, new_messages, tools,
                   total_usage, response, msg_idx, pending, tool_calls_executed,
                   requests, tool_log, list_calls, replies, reply_meta, loaded, stream,
                   accumulated_message, finish_reason, request_base_usage, adapterVars, libVars>>

\* The end of the loop body of chat_stream.
StreamEndIteration ==
    /\ pc = "process"
    /\ mode = "chat_stream"
    /\ pending = <<>>
    /\ IF LoopDone
       THEN /\ yielded' = IF finish_reason # None
                          THEN Append(yielded, Finish(finish_reason[1])) ELSE yielded
            /\ result' = [status |-> "Ok"]
            /\ pc' = "done"
            /\ UNCHANGED iteration
       ELSE /\ iteration' = iteration + 1
            /\ pc' = "loop"
            /\ UNCHANGED <<result, yielded>>
    /\ UNCHANGED <<mode, configVars, input, resources, messages, new_messages, tools,
                   total_usage, response, msg_idx, pending, tool_calls_executed,
                   requests, tool_log, list_calls, replies, reply_meta, loaded, stream,
                   accumulated_message, finish_reason, request_base_usage, adapterVars, libVars>>

(***************************************************************************)
(* StreamingClient::request_stream of the adapters.  The SSE layer hands   *)
(* the adapter one event at a time: a data line holding a well-formed      *)
(* chunk, a data line that is not well-formed JSON, or a transport error.  *)
(* Positions in parts are 1-based here (0-based in the code).              *)
(***************************************************************************)
agentVars == <<pc, mode, configVars, runVars, streamVars>>

\* Number of SSE events of one HTTP response.
MaxChunks == 3

OText(c, fin) == [kind |-> "Text", content |-> c, finished |-> fin]
OCall(id, name, args, fin) ==
    [kind |-> "FunctionCall", id |-> id, name |-> name, arguments |-> args,
     finished |-> fin]

ToolCallDelta(index, id, name, args) ==
    [index |-> index, id |-> id, name |-> name, arguments |-> args]
Delta(content, tool_calls) == [content |-> content, tool_calls |-> tool_calls]
Choice(delta, finish) == [delta |-> delta, finish_reason |-> finish]
OpenAIStreamChunk(choices, usage) == [choices |-> choices, usage |-> usage]

WellFormed(c) == [ev |-> "chunk", chunk |-> c]
BadJson == [ev |-> "bad_json"]
SseErr == [ev |-> "sse_err"]

OpenAIEvents ==
    { WellFormed(OpenAIStreamChunk(<<Choice(Some(Delta(Some(<<"a">>), <<>>)), None)>>, None)),
      WellFormed(OpenAIStreamChunk(<<Choice(Some(Delta(Some(<<"b">>), <<>>)), None)>>, None)),
      WellFormed(OpenAIStreamChunk(
          <<Choice(Some(Delta(None, <<ToolCallDelta(0, Some("c1"), Some(<<"f">>), Some(<<"{">>))>>)),
                   None)>>, None)),
      WellFormed(OpenAIStreamChunk(
          <<Choice(Some(Delta(None, <<ToolCallDelta(0, None, None, Some(<<"}">>))>>)), None)>>,
          None)),
      WellFormed(OpenAIStreamChunk(
          <<Choice(Some(Delta(None, <<ToolCallDelta(1, Some("c2"), Some(<<"g">>),
                                                    Some(<<"{", "k", "}">>))>>)), None)>>,
          None)),
      WellFormed(OpenAIStreamChunk(<<Choice(None, Some("stop"))>>, None)),
      WellFormed(OpenAIStreamChunk(<<Choice(None, Some("tool_calls"))>>, None)),
      WellFormed(OpenAIStreamChunk(<<>>, Some([prompt_tokens |-> 1, completion_tokens |-> 100]))),
      WellFormed(OpenAIStreamChunk(<<>>, Some([prompt_tokens |-> 1, completion_tokens |-> 120]))),
      WellFormed(OpenAIStreamChunk(<<>>, Some([prompt_tokens |-> 1, completion_tokens |-> 150]))),
      BadJson,
      SseErr }

ErrItem == [item |-> "Err"]
ResponseItem(r) == [item |-> "Response", response |-> r]
ChunkItem(c) == [item |-> "Chunk", chunk |-> c]

\* The finish-reason table of the streaming path.
OpenAIFinish(reason) ==
    CASE reason = "stop" -> "Stop"
      [] reason = "length" -> "OutputTokens"
      [] reason = "tool_calls" -> "ToolCalls"
      [] reason = "content_filter" -> "ContentFilter"
      [] OTHER -> "Stop"

\* The accumulator state: [parts, map, text_idx, finish, usage].
\* Faulty variant of ApplyContent: every delta starts a Text part of its own.
ApplyContentNewPart(st, c) ==
    [st EXCEPT !.parts = Append(@, OText(c, FALSE)), !.text_idx = Some(Len(st.parts) + 1)]
\* Faulty variant of ApplyContent: the delta replaces the text instead of extending it.
ApplyContentReplace(st, c) ==
    IF st.text_idx # None
    THEN [st EXCEPT !.parts[st.text_idx[1]].content = c]
    ELSE [st EXCEPT !.parts = Append(@, OText(c, FALSE)),
                    !.text_idx = Some(Len(st.parts) + 1)]
\* delta.content
ApplyContent(st, c) ==
    IF st.text_idx # None
    THEN (IF st.parts[st.text_idx[1]].kind = "Text"
          THEN [st EXCEPT !.parts[st.text_idx[1]].content = @ \o c]
          ELSE st)
    ELSE [st EXCEPT !.parts = Append(@, OText(c, FALSE)),
                    !.text_idx = Some(Len(st.parts) + 1)]

\* Faulty variant of ApplyToolCall: the delta is merged into the last part, whatever
\* its index.
ApplyToolCallIntoLast(st, tc) ==
    LET fresh == st.parts = <<>> \/ st.parts[Len(st.parts)].kind # "FunctionCall"
        idx == IF fresh THEN Len(st.parts) + 1 ELSE Len(st.parts)
        parts0 == IF fresh THEN Append(st.parts, OCall(None, <<>>, JString(<<>>), FALSE))
                  ELSE st.parts
        p == parts0[idx]
        p1 == IF tc.id # None THEN [p EXCEPT !.id = tc.id] ELSE p
        p2 == IF tc.name # None THEN [p1 EXCEPT !.name = @ \o tc.name[1]] ELSE p1
        p3 == IF tc.arguments # None /\ p2.arguments.t = "String"
              THEN [p2 EXCEPT !.arguments.s = @ \o tc.arguments[1]] ELSE p2
    IN [st EXCEPT !.map = [i \in DOMAIN st.map \cup {tc.index} |-> idx],
                  !.parts = [parts0 EXCEPT ![idx] = p3]]
\* One entry of delta.tool_calls.
ApplyToolCall(st, tc) ==
    LET known == tc.index \in DOMAIN st.map
        idx == IF known THEN st.map[tc.index] ELSE Len(st.parts) + 1
        parts0 == IF known THEN st.parts
                  ELSE Append(st.parts, OCall(None, <<>>, JString(<<>>), FALSE))
        map1 == IF known THEN st.map
                ELSE [i \in DOMAIN st.map \cup {tc.index} |->
                        IF i = tc.index THEN idx ELSE st.map[i]]
        p == parts0[idx]
        p1 == IF tc.id # None THEN [p EXCEPT !.id = tc.id] ELSE p
        p2 == IF tc.name # None THEN [p1 EXCEPT !.name = @ \o tc.name[1]] ELSE p1
        p3 == IF tc.arguments # None /\ p2.arguments.t = "String"
              THEN [p2 EXCEPT !.arguments.s = @ \o tc.arguments[1]] ELSE p2
    IN [st EXCEPT !.map = map1,
                  !.parts = IF p.kind = "FunctionCall" THEN [parts0 EXCEPT ![idx] = p3]
                            ELSE parts0]

RECURSIVE ApplyToolCalls(_, _)
ApplyToolCalls(st, tcs) ==
    IF tcs = <<>> THEN st ELSE ApplyToolCalls(ApplyToolCall(st, Head(tcs)), Tail(tcs))

\* Faulty variant of FinishPart: the argument buffer is left as the string it is.
FinishPartKeepsBuffer(p) == [p EXCEPT !.finished = TRUE]
\* On a finish_reason: every part is marked finished, argument buffers are parsed.
FinishPart(p) ==
    IF p.kind = "FunctionCall"
    THEN [p EXCEPT !.finished = TRUE,
                   !.arguments = IF @.t = "String"
                                 THEN (IF ParseJson(@.s).ok THEN ParseJson(@.s).value
                                       ELSE EmptyObject)
                                 ELSE @]
    ELSE [p EXCEPT !.finished = TRUE]

ApplyChoice(st, choice) ==
    LET d == choice.delta
        s1 == IF d # None /\ d[1].content # None THEN ApplyContent(st, d[1].content[1]) ELSE st
        s2 == IF d # None THEN ApplyToolCalls(s1, d[1].tool_calls) ELSE s1
    IN IF choice.finish_reason # None
       THEN [s2 EXCEPT !.parts = [i \in 1..Len(s2.parts) |-> FinishPart(s2.parts[i])],
                       !.finish = OpenAIFinish(choice.finish_reason[1])]
       ELSE s2

RECURSIVE ApplyChoices(_, _)
ApplyChoices(st, choices) ==
    IF choices = <<>> THEN st ELSE ApplyChoices(ApplyChoice(st, Head(choices)), Tail(choices))

\* Faulty variant of ReportedUsage: the totals of the chunks are summed.
ReportedUsageSummed(current, u) ==
    UsageAdd(current, Usage(Some(u.prompt_tokens), Some(u.completion_tokens)))
\* The usage of the snapshot after a chunk that reports usage u.
ReportedUsage(current, u) == Usage(Some(u.prompt_tokens), Some(u.completion_tokens))

\* One well-formed chunk: the usage, then the choices.
ApplyChunk(st, chunk) ==
    LET s0 == IF chunk.usage # None
              THEN [st EXCEPT !.usage = ReportedUsage(@, chunk.usage[1])]
              ELSE st
    IN ApplyChoices(s0, chunk.choices)

\* request_stream returned Ok: the stream of an adapter is open.
OpenStream(a) ==
    /\ stream_state = "idle"
    /\ adapter' = a
    /\ stream_state' = "open"
    /\ current_response' = [data |-> <<Assistant(<<>>)>>, usage |-> Usage(None, None),
                            finish |-> "Unfinished"]
    /\ tool_index_map' = <<>>
    /\ current_text_part_index' = None
    /\ UNCHANGED <<wire, consumed, emitted, agentVars, libVars>>

\* OpenAIStream::create: one round of the while loop.
OpenAINext(ev) ==
    /\ adapter = "openai"
    /\ stream_state = "open"
    /\ Len(wire) < MaxChunks
    /\ wire' = Append(wire, ev)
    /\ IF ev.ev # "chunk"
       THEN /\ emitted' = Append(emitted, ErrItem)
            /\ stream_state' = "failed"
            /\ UNCHANGED <<consumed, current_response, tool_index_map,
                           current_text_part_index>>
       ELSE LET st == ApplyChunk([parts |-> current_response.data[1].parts,
                                  map |-> tool_index_map,
                                  text_idx |-> current_text_part_index,
                                  finish |-> current_response.finish,
                                  usage |-> current_response.usage], ev.chunk)
                r == [data |-> <<Assistant(st.parts)>>, usage |-> st.usage,
                      finish |-> st.finish]
            IN /\ current_response' = r
               /\ tool_index_map' = st.map
               /\ current_text_part_index' = st.text_idx
               /\ consumed' = Append(consumed, ev.chunk)
               /\ emitted' = Append(emitted, ResponseItem(r))
               /\ UNCHANGED stream_state
    /\ UNCHANGED <<adapter, agentVars, libVars>>

\* The SSE stream has ended ([DONE] or end of the body).
StreamClosed ==
    /\ stream_state = "open"
    /\ stream_state' = "ended"
    /\ UNCHANGED <<adapter, wire, consumed, current_response, tool_index_map,
                   current_text_part_index, emitted, agentVars, libVars>>

GText(thought, text) == [g |-> "text", thought |-> thought, text |-> text]
GCall(name, args) == [g |-> "function_call", name |-> name, args |-> args]
GeminiCandidate(parts, finish) == [parts |-> parts, finish_reason |-> finish]
GeminiResponse(candidates, usage) == [candidates |-> candidates, usage_metadata |-> usage]

GeminiEvents ==
    { WellFormed(GeminiResponse(<<GeminiCandidate(<<GText(FALSE, <<"a">>)>>, None)>>, None)),
      WellFormed(GeminiResponse(<<GeminiCandidate(<<GText(FALSE, <<"b">>)>>, Some("STOP"))>>,
                                Some([prompt_token_count |-> 1,
                                      candidates_token_count |-> Some(2),
                                      thoughts_token_count |-> None]))),
      WellFormed(GeminiResponse(
          <<GeminiCandidate(<<GText(FALSE, <<"a">>), GCall(Str("f"), ArgsObj)>>, None)>>, None)),
      WellFormed(GeminiResponse(<<GeminiCandidate(<<>>, None)>>, None)),
      BadJson,
      SseErr }

\* impl From<GeminiPart> for Message
GeminiPartToMessage(part) ==
    IF part.g = "text"
    THEN (IF part.thought
          THEN Assistant(<<[kind |-> "Reasoning", content |-> part.text]>>)
          ELSE Assistant(<<Text(part.text)>>))
    ELSE Assistant(<<FunctionCall(None, part.name, part.args)>>)

\* impl From<GeminiFinishReason> for FinishReason
GeminiFinish(reason) ==
    CASE reason = "STOP" -> "Stop"
      [] reason = "MAX_TOKENS" -> "OutputTokens"
      [] reason \in {"SAFETY", "LANGUAGE", "BLOCKLIST", "PROHIBITED_CONTENT", "SPII",
                     "IMAGE_SAFETY", "IMAGE_PROHIBITED_CONTENT", "IMAGE_RECITATION"}
            -> "ContentFilter"
      [] reason \in {"MALFORMED_FUNCTION_CALL", "UNEXPECTED_TOOL_CALL", "TOO_MANY_TOOL_CALLS"}
            -> "ToolCalls"
      [] OTHER -> "Stop"

UnwrapOrDefault(o) == IF o = None THEN 0 ELSE o[1]

RECURSIVE GeminiDataChunks(_)
GeminiDataChunks(candidates) ==
    IF candidates = <<>> THEN <<>>
    ELSE [i \in 1..Len(Head(candidates).parts) |->
            ChunkItem(Data(GeminiPartToMessage(Head(candidates).parts[i])))]
         \o GeminiDataChunks(Tail(candidates))

\* The chunks process_stream emits for one decoded GeminiResponse.
GeminiChunks(resp) ==
    GeminiDataChunks(resp.candidates)
    \o (IF resp.usage_metadata # None
        THEN <<ChunkItem(UsageChunk(Usage(
                  Some(resp.usage_metadata[1].prompt_token_count),
                  Some(UnwrapOrDefault(resp.usage_metadata[1].candidates_token_count)
                       + UnwrapOrDefault(resp.usage_metadata[1].thoughts_token_count)))))>>
        ELSE <<>>)
    \o (IF resp.candidates[Len(resp.candidates)].finish_reason # None
        THEN <<ChunkItem(Finish(GeminiFinish(
                  resp.candidates[Len(resp.candidates)].finish_reason[1])))>>
        ELSE <<>>)

\* GeminiClient::process_stream: one SSE event through map and flat_map.
GeminiNext(ev) ==
    /\ adapter = "gemini"
    /\ stream_state = "open"
    /\ Len(wire) < MaxChunks
    /\ wire' = Append(wire, ev)
    /\ IF ev.ev # "chunk"
       THEN /\ emitted' = Append(emitted, ErrItem)
            /\ UNCHANGED consumed
       ELSE /\ emitted' = emitted \o GeminiChunks(ev.chunk)
            /\ consumed' = Append(consumed, ev.chunk)
    /\ UNCHANGED <<adapter, stream_state, current_response, tool_index_map,
                   current_text_part_index, agentVars, libVars>>

AdapterNext ==
    \/ \E a \in {"openai", "gemini"} : OpenStream(a)
    \/ \E ev \in OpenAIEvents : OpenAINext(ev)
    \/ \E ev \in GeminiEvents : GeminiNext(ev)
    \/ StreamClosed

SpecAdapter == Init /\ [][AdapterNext]_vars

Next ==
    \/ WithServer
    \/ \E max \in 0..MaxIterations : WithMaxIterations(max)
    \/ \E msgs \in InputMessages, res \in ResourceLists : Chat(msgs, res)
    \/ \E msgs \in InputMessages, res \in ResourceLists : ChatStream(msgs, res)
    \/ LoadResource
    \/ GetTools
    \/ MaxIterationsReached
    \/ Request
    \/ ProcessMessage
    \/ ExecuteTool
    \/ EndIteration
    \/ StreamRequest
    \/ StreamNext
    \/ StreamEnd
    \/ StreamExecuteTool
    \/ StreamEndIteration

Spec == Init /\ [][Next]_vars

\* The steps of a running chat or chat_stream call.  Each awaits something that
\* completes (a resource read, the tool listing, an adapter request, a stream
\* item, a tool call) and is then taken: the call is polled to completion.
Running ==
    \/ LoadResource
    \/ GetTools
    \/ MaxIterationsReached
    \/ Request
    \/ ProcessMessage
    \/ ExecuteTool
    \/ EndIteration
    \/ StreamRequest
    \/ StreamNext
    \/ StreamEnd
    \/ StreamExecuteTool
    \/ StreamEndIteration

SpecLive == Spec /\ WF_vars(Running)

\* The agent and the adapters' streams side by side: a stream is decoded on its
\* own, before any agent call, or the agent runs on its own.
NextAll ==
    \/ stream_state = "idle" /\ Next
    \/ pc = "built" /\ ~server /\ ~overridden /\ AdapterNext

SpecAll == Init /\ [][NextAll]_vars

(***************************************************************************)
(* Vocabulary of the properties                                            *)
(***************************************************************************)
IsUser(m) == m.role = "User"
IsFunctionResponse(part) == part.kind = "FunctionResponse"

\* All parts of a sequence of messages, in order.
PartsOf(msgs) == Flatten([i \in 1..Len(msgs) |-> msgs[i].parts])
CallsIn(msgs) == SelectCalls(PartsOf(msgs))
ResponsesIn(msgs) == SelectSeq(PartsOf(msgs), IsFunctionResponse)
HasCall(msgs) == CallsIn(msgs) # <<>>

\* The part of the history that this invocation produced.
Produced == SubSeq(messages, Len(input) + 1, Len(messages))

\* A JSON object with an "error" key.
IsErrorObject(v) ==
    v.t = "Object" /\ \E f \in 1..Len(v.fields) : v.fields[f][1] = "error"

\* The messages appended to the history in the i-th iteration (1-based), read
\* off the histories the adapter received.
Segment(i) ==
    SubSeq(messages, Len(requests[i].messages) + 1,
           IF i < Len(requests) THEN Len(requests[i + 1].messages) ELSE Len(messages))

AllRepliesCall == /\ Len(replies) = Len(requests)
                  /\ \A i \in 1..Len(replies) : HasCall(replies[i])

MaxIterationsError == ConfigError("Max iterations reached in agent loop")

(***************************************************************************)
(* C1: one chat invocation issues at most max_iterations adapter requests  *)
(* (10 unless overridden); when every response holds a FunctionCall it     *)
(* issues exactly max_iterations requests and then returns the             *)
(* Configuration error "Max iterations reached".                           *)
(***************************************************************************)
C1_IterationBound ==
    /\ ~overridden => max_iterations = DefaultMaxIterations
    /\ (mode = "chat" /\ max_iterations >= 1) =>
          /\ Len(requests) <= max_iterations
          /\ (pc = "done" /\ AllRepliesCall) =>
                (Len(requests) = max_iterations /\ result = MaxIterationsError)

C1_Witness ==
    /\ mode = "chat" /\ pc = "done" /\ max_iterations = 2
    /\ Len(requests) = 2 /\ AllRepliesCall
    /\ result = MaxIterationsError

(***************************************************************************)
(* C2: a response without a FunctionCall ends the loop: no further adapter *)
(* request, no tool call, Ok with the trace produced so far.  As claimed:  *)
(* when the first response has no FunctionCall the returned data equals    *)
(* that response's messages.                                               *)
(***************************************************************************)
NoCallReplyEndsLoop ==
    \A i \in 1..Len(replies) : ~HasCall(replies[i]) =>
        /\ i = Len(replies) /\ Len(requests) = i
        /\ \A k \in 1..Len(tool_log) : tool_log[k].iteration # i - 1
        /\ pc \in {"process", "done"}
        /\ pc = "done" => (result.status = "Ok" /\ result.data = Produced)

FirstReplyFinal == pc = "done" /\ replies # <<>> /\ ~HasCall(replies[1])

C2_Original ==
    mode = "chat" =>
        /\ NoCallReplyEndsLoop
        /\ FirstReplyFinal =>
              (Len(requests) = 1 /\ result.status = "Ok" /\ result.data = replies[1])

\* C2 as amended: the returned data is the messages of the loaded resources
\* followed by that response's messages; without a tool server no resource is
\* loaded and the data is exactly the response's messages.
C2_NoCallReturnsTrace ==
    mode = "chat" =>
        /\ NoCallReplyEndsLoop
        /\ FirstReplyFinal =>
              /\ Len(requests) = 1 /\ result.status = "Ok"
              /\ result.data = loaded \o replies[1]
              /\ ~server => result.data = replies[1]

C2_Witness ==
    /\ mode = "chat" /\ FirstReplyFinal
    /\ loaded # <<>> /\ replies[1] # <<>>
    /\ result.status = "Ok"

(***************************************************************************)
(* C3: first response = one assistant message with exactly one             *)
(* FunctionCall, second response without one: exactly one tool dispatch    *)
(* (reaching call_tool when a server is configured), two messages appended *)
(* in the first iteration (assistant call, user response), then a second   *)
(* request, and the trace holds the messages of both iterations in order.  *)
(***************************************************************************)
SingleCallReply(d) == Len(d) = 1 /\ Len(CallsIn(d)) = 1

C3_Case ==
    /\ mode = "chat" /\ pc = "done"
    /\ Len(replies) >= 2 /\ SingleCallReply(replies[1]) /\ ~HasCall(replies[2])

C4_ToolFailureNotPropagated ==
    mode \in {"chat", "chat_stream"} =>
        /\ Len(ResponsesIn(Produced)) = Len(tool_log)
        /\ \A k \in 1..Len(tool_log) : ~tool_log[k].ok =>
              LET r == ResponsesIn(Produced)[k]
                  next == tool_log[k].iteration + 2
              IN /\ IsErrorObject(r.response)
                 /\ r.id = tool_log[k].id /\ r.name = tool_log[k].name
                 /\ ~(result.status = "Err" /\ result.msg = tool_log[k].err)
                 /\ (pc = "done" /\ next <= max_iterations) => Len(requests) >= next
                 /\ Len(requests) >= next =>
                       \E j \in 1..Len(requests[next].messages) :
                           requests[next].messages[j] = User(<<r>>)

C4_Witness ==
    /\ mode = "chat_stream" /\ server
    /\ \E k \in 1..Len(tool_log) :
          /\ ~tool_log[k].ok
          /\ Len(requests) >= tool_log[k].iteration + 2

(***************************************************************************)
(* C5: without a tool server, a FunctionCall ends chat with the            *)
(* Configuration error "No server configured": no FunctionResponse is      *)
(* appended and no further adapter request is issued.                      *)
(***************************************************************************)
C5_NoServerIsFatal ==
    (mode = "chat" /\ ~server /\ tool_log # <<>>) =>
        /\ ResponsesIn(Produced) = <<>>
        /\ Len(requests) = tool_log[1].iteration + 1
        /\ pc = "done" => (result.status = "Err" /\ result.kind = "Config"
                              /\ result # MaxIterationsError)

(***************************************************************************)
(* C6: an iteration that found k >= 1 FunctionCall parts appended exactly  *)
(* one User message, holding all k FunctionResponse parts.                 *)
(***************************************************************************)
C6_OneResponseMessagePerIteration ==
    (mode \in {"chat", "chat_stream"} /\ pc \in {"loop", "done"}) =>
        \A i \in 1..Len(replies) :
            LET seg == Segment(i)
                k == Len(CallsIn(seg))
                users == SelectSeq(seg, IsUser)
            IN k >= 1 =>
                  /\ Len(users) = 1
                  /\ Len(ResponsesIn(users)) = k

(***************************************************************************)
(* C7: in each iteration of chat all assistant messages of the response    *)
(* are appended before any tool-response message of that iteration.        *)
(***************************************************************************)
C7_AssistantBlockThenResponses ==
    (mode = "chat" /\ pc \in {"loop", "done"}) =>
        \A i \in 1..Len(replies) :
            LET seg == Segment(i)
                n == Len(replies[i])
            IN /\ Len(seg) >= n
               /\ SubSeq(seg, 1, n) = replies[i]
               /\ \A j \in (n + 1)..Len(seg) : seg[j].role = "User"

(***************************************************************************)
(* C8: one FunctionResponse per FunctionCall found, in the order of the    *)
(* calls, each with the id and the name of its call, on success and on     *)
(* failure; calls of one turn never exchange or share ids.                 *)
(***************************************************************************)
C8_OneResponsePerCall ==
    mode \in {"chat", "chat_stream"} =>
        LET calls == CallsIn(Produced)
            resps == ResponsesIn(Produced)
        IN /\ Len(resps) + Len(pending) = Len(calls)
           /\ Len(resps) = Len(tool_log)
           /\ \A k \in 1..Len(resps) :
                 /\ resps[k].id = calls[k].id
                 /\ resps[k].name = calls[k].name
                 /\ tool_log[k].ok = ~IsErrorObject(resps[k].response)
           /\ \A j, k \in 1..Len(resps) :
                 calls[j].id # calls[k].id => resps[j].id # resps[k].id

C8_Witness ==
    /\ mode = "chat" /\ pc = "done"
    /\ \E j, k \in 1..Len(tool_log) :
          /\ j < k /\ tool_log[j].iteration = tool_log[k].iteration
          /\ tool_log[j].id # tool_log[k].id
          /\ tool_log[j].ok /\ ~tool_log[k].ok

(***************************************************************************)
(* C9: the history is the caller's input followed by the trace; every      *)
(* adapter request receives the full current history; the returned data is *)
(* the trace, without the caller's input.  As claimed: at every point of   *)
(* the invocation.                                                         *)
(***************************************************************************)
RequestsSeeHistory ==
    /\ \A i \in 1..Len(requests) :
          /\ Len(requests[i].messages) <= Len(messages)
          /\ requests[i].messages = SubSeq(messages, 1, Len(requests[i].messages))
          /\ Len(requests[i].messages) >= Len(input) + Len(loaded)
    /\ (pc = "process" /\ msg_idx = 1 /\ pending = <<>>) =>
          requests[Len(requests)].messages = messages

ReturnsTrace ==
    (pc = "done" /\ result.status = "Ok") =>
        (result.data = new_messages /\ result.data = Produced)

C9_Original ==
    mode = "chat" =>
        /\ messages = input \o new_messages
        /\ RequestsSeeHistory
        /\ ReturnsTrace

\* C9 as amended: the equation holds from the return of load_resources on;
\* while resources are being loaded, the resource messages read so far are in
\* the history and not yet in the trace.
C9_HistoryIsInputThenTrace ==
    mode = "chat" =>
        /\ resources = <<>> => messages = input \o new_messages
        /\ RequestsSeeHistory
        /\ ReturnsTrace

C9_Witness ==
    /\ mode = "chat" /\ pc = "done" /\ result.status = "Ok"
    /\ input # <<>> /\ loaded # <<>> /\ Len(requests) >= 2

(***************************************************************************)
(* C10: every element emitted by request_stream is a cumulative snapshot:  *)
(* one emission per received chunk, the k-th being the fold of chunks      *)
(* 1..k, for the OpenAI-compatible and the Gemini adapter.  Stated on the  *)
(* text of the turn: the text of the k-th emission is the concatenation of *)
(* the text deltas of chunks 1..k.                                         *)
(***************************************************************************)
RECURSIVE TextOfParts(_)
TextOfParts(parts) ==
    IF parts = <<>> THEN <<>>
    ELSE (IF Head(parts).kind = "Text" THEN Head(parts).content ELSE <<>>)
         \o TextOfParts(Tail(parts))

\* The text delta a decoded wire chunk carries.
WireText(chunk) ==
    IF adapter = "openai"
    THEN Flatten([i \in 1..Len(chunk.choices) |->
            IF chunk.choices[i].delta # None /\ chunk.choices[i].delta[1].content # None
            THEN chunk.choices[i].delta[1].content[1] ELSE <<>>])
    ELSE Flatten([i \in 1..Len(chunk.candidates) |->
            Flatten([j \in 1..Len(chunk.candidates[i].parts) |->
                IF chunk.candidates[i].parts[j].g = "text"
                THEN chunk.candidates[i].parts[j].text ELSE <<>>])])

\* The text an emitted element shows to a consumer that keeps only it.
ItemText(e) ==
    IF e.item = "Response" THEN TextOfParts(PartsOf(e.response.data))
    ELSE IF e.item = "Chunk" /\ e.chunk.chunk = "Data" THEN TextOfParts(e.chunk.message.parts)
    ELSE <<>>

IsOkItem(e) == e.item # "Err"

C10_CumulativeSnapshots ==
    adapter # "none" =>
        LET oks == SelectSeq(emitted, IsOkItem)
        IN /\ Len(oks) = Len(consumed)
           /\ \A k \in 1..Len(oks) :
                 ItemText(oks[k]) = Flatten([i \in 1..k |-> WireText(consumed[i])])

(***************************************************************************)
(* Vocabulary of the snapshot properties (OpenAI-compatible adapter)       *)
(***************************************************************************)
IsText(p) == p.kind = "Text"
IsFunctionCall(p) == p.kind = "FunctionCall"
IsPrefix(s, t) == Len(s) <= Len(t) /\ SubSeq(t, 1, Len(s)) = s

\* The elements the stream has yielded without error, in order.
OkItems == SelectSeq(emitted, IsOkItem)
\* The parts of the k-th snapshot.
SnapshotParts(k) == OkItems[k].response.data[1].parts
\* The text deltas of the chunks 1..k, concatenated in arrival order.
TextDeltas(k) == Flatten([i \in 1..k |-> WireText(consumed[i])])

(***************************************************************************)
(* C11: for streamed text deltas d1..dN the Text part of the k-th snapshot *)
(* is concat(d1..dk), the final one concat(d1..dN); every intermediate     *)
(* snapshot is a prefix of the later ones, in delta order.                 *)
(***************************************************************************)
C11_TextIsConcatenation ==
    adapter = "openai" =>
        /\ Len(OkItems) = Len(consumed)
        /\ \A k \in 1..Len(OkItems) :
              LET texts == SelectSeq(SnapshotParts(k), IsText)
              IN /\ Len(texts) <= 1
                 /\ Len(texts) = 1 => texts[1].content = TextDeltas(k)
                 /\ Len(texts) = 0 => TextDeltas(k) = <<>>
                 /\ \A j \in 1..k :
                       IsPrefix(TextOfParts(SnapshotParts(j)), TextOfParts(SnapshotParts(k)))

C11_Witness ==
    /\ adapter = "openai" /\ Len(consumed) = 3 /\ Len(OkItems) = 3
    /\ TextDeltas(1) = <<"a">> /\ TextDeltas(2) = <<"a", "b">>
    /\ TextOfParts(SnapshotParts(3)) = <<"a", "b", "a">>

\* The tool-call deltas of one chunk, and of the chunks 1..k, in arrival order.
ChunkToolDeltas(chunk) ==
    Flatten([i \in 1..Len(chunk.choices) |->
        IF chunk.choices[i].delta # None THEN chunk.choices[i].delta[1].tool_calls
        ELSE <<>>])
ToolDeltas(k) == Flatten([i \in 1..k |-> ChunkToolDeltas(consumed[i])])
Indices(k) == { ToolDeltas(k)[j].index : j \in 1..Len(ToolDeltas(k)) }
\* The name and the argument fragments tagged with index i in the chunks 1..k.
NameOf(i, k) ==
    Flatten([j \in 1..Len(ToolDeltas(k)) |->
        IF ToolDeltas(k)[j].index = i /\ ToolDeltas(k)[j].name # None
        THEN ToolDeltas(k)[j].name[1] ELSE <<>>])
ArgsOf(i, k) ==
    Flatten([j \in 1..Len(ToolDeltas(k)) |->
        IF ToolDeltas(k)[j].index = i /\ ToolDeltas(k)[j].arguments # None
        THEN ToolDeltas(k)[j].arguments[1] ELSE <<>>])

(***************************************************************************)
(* C12: with tool-call deltas on distinct indices, arbitrarily             *)
(* interleaved, the accumulator holds exactly one FunctionCall part per    *)
(* distinct index, at a position fixed at the first sighting of the index; *)
(* the name and the argument buffer of the part of index i are the         *)
(* concatenation, in arrival order, of exactly the deltas tagged i.        *)
(***************************************************************************)
C12_OnePartPerIndex ==
    adapter = "openai" =>
        /\ \A i, j \in DOMAIN tool_index_map :
              i # j => tool_index_map[i] # tool_index_map[j]
        /\ \A k \in 1..Len(OkItems) :
              LET parts == SnapshotParts(k) IN
              /\ Len(SelectSeq(parts, IsFunctionCall)) = Cardinality(Indices(k))
              /\ \A i \in Indices(k) :
                    /\ i \in DOMAIN tool_index_map
                    /\ tool_index_map[i] <= Len(parts)
                    /\ LET p == parts[tool_index_map[i]] IN
                       /\ p.kind = "FunctionCall"
                       /\ p.name = NameOf(i, k)
                       /\ OkItems[k].response.finish = "Unfinished" =>
                             p.arguments = JString(ArgsOf(i, k))

C12_Witness ==
    /\ adapter = "openai" /\ Len(OkItems) = 3
    /\ Indices(1) = {0} /\ Indices(2) = {0, 1}
    /\ Len(ToolDeltas(3)) = 3 /\ ToolDeltas(3)[3].index = 0
    /\ SnapshotParts(3)[tool_index_map[0]].arguments = JString(<<"{", "}">>)
    /\ SnapshotParts(3)[tool_index_map[1]].arguments = JString(<<"{", "k", "}">>)

\* serde_json::from_str(buffer), or {} when the buffer is not well-formed.
ParseOrEmpty(text) == IF ParseJson(text).ok THEN ParseJson(text).value ELSE EmptyObject

AllFinishedStructured(parts) ==
    \A p \in 1..Len(parts) :
        /\ parts[p].finished
        /\ parts[p].kind = "FunctionCall" => parts[p].arguments.t = "Object"

\* The finish reason is the last thing the chunk makes the accumulator process.
ChunkFinishes(chunk) ==
    chunk.choices # <<>> /\ chunk.choices[Len(chunk.choices)].finish_reason # None

\* No chunk before the k-th carried a finish reason.
FirstFinishAt(k) ==
    /\ ChunkFinishes(consumed[k])
    /\ \A j \in 1..(k - 1) : OkItems[j].response.finish = "Unfinished"

\* The argument buffers are parsed, with {} for a malformed buffer, and a
\* malformed buffer does not fail the stream.
ArgumentsParsedAtFinish ==
    /\ Len(OkItems) = Len(consumed)
    /\ stream_state = "failed" => wire[Len(wire)].ev # "chunk"
    /\ \A k \in 1..Len(OkItems) : FirstFinishAt(k) =>
          \A i \in Indices(k) :
              SnapshotParts(k)[tool_index_map[i]].arguments = ParseOrEmpty(ArgsOf(i, k))

IsTerminalItem(e) ==
    \/ e.item = "Response" /\ e.response.finish # "Unfinished"
    \/ e.item = "Chunk" /\ e.chunk.chunk = "Finish"

(***************************************************************************)
(* C14: a stream of request_stream that ends without an error ends with an *)
(* emission whose finish differs from Unfinished, and once an emission     *)
(* carries a terminal finish no later Response of the stream is            *)
(* Unfinished.                                                             *)
(***************************************************************************)
C14_EndsWithTerminalFinish ==
    (adapter # "none" /\ stream_state = "ended" /\ OkItems = emitted) =>
        /\ emitted # <<>>
        /\ IsTerminalItem(emitted[Len(emitted)])
        /\ \A j, k \in 1..Len(emitted) :
              (j < k /\ emitted[j].item = "Response" /\ IsTerminalItem(emitted[j]))
                  => IsTerminalItem(emitted[k])

\* The number of well-formed chunks among the first k - 1 events of the wire.
ChunksBefore(k) == Cardinality({ j \in 1..(k - 1) : wire[j].ev = "chunk" })

(***************************************************************************)
(* C15: when a streamed chunk is not well-formed JSON the stream yields an *)
(* error for it and fails as a whole: nothing is emitted for that chunk    *)
(* nor for any later one, for every streaming adapter.                     *)
(***************************************************************************)
C15_BadChunkFailsStream ==
    adapter # "none" =>
        \A k \in 1..Len(wire) : wire[k].ev = "bad_json" =>
            /\ \E j \in 1..Len(emitted) : emitted[j].item = "Err"
            /\ Len(consumed) <= ChunksBefore(k)
            /\ \A j \in 1..Len(emitted) :
                  emitted[j].item = "Err" => j = Len(emitted)

\* Part new continues part old: same variant, and the content only grew at its end.
Extends(old, new) ==
    /\ new.kind = old.kind
    /\ old.kind = "Text" => IsPrefix(old.content, new.content)
    /\ old.kind = "FunctionCall" =>
          /\ IsPrefix(old.name, new.name)
          /\ (old.arguments.t = "String" /\ new.arguments.t = "String") =>
                IsPrefix(old.arguments.s, new.arguments.s)

(***************************************************************************)
(* C16: across the successive snapshots of one streamed turn, up to the    *)
(* terminal chunk, the number of parts never decreases, a part never       *)
(* changes position or variant, and the content length of each part (text, *)
(* function name, argument buffer) never decreases.                        *)
(***************************************************************************)
C16_SnapshotsGrow ==
    adapter = "openai" =>
        \A k \in 2..Len(OkItems) :
            OkItems[k - 1].response.finish = "Unfinished" =>
                LET old == SnapshotParts(k - 1)
                    new == SnapshotParts(k)
                IN /\ Len(new) >= Len(old)
                   /\ \A p \in 1..Len(old) :
                         /\ Extends(old[p], new[p])
                         /\ old[p].kind = "Text" =>
                               Len(new[p].content) >= Len(old[p].content)
                         /\ OkItems[k].response.finish = "Unfinished" =>
                               new[p].finished = old[p].finished

C16_Witness ==
    /\ adapter = "openai" /\ Len(OkItems) = 3
    /\ OkItems[3].response.finish = "Unfinished"
    /\ Len(SnapshotParts(1)) = 1 /\ SnapshotParts(1)[1].kind = "Text"
    /\ Len(SnapshotParts(2)) = 2 /\ SnapshotParts(2)[2].kind = "FunctionCall"
    /\ Len(SnapshotParts(3)) = 2 /\ Len(SnapshotParts(3)[1].content) = 2

IsUsageChunk(c) == c.chunk = "Usage"
UsagesOf(items) == SelectSeq(items, IsUsageChunk)

\* The usage reports among the wire chunks 1..k of the OpenAI-compatible stream.
WireUsages(k) ==
    Flatten([i \in 1..k |-> IF consumed[i].usage # None THEN <<consumed[i].usage[1]>>
                            ELSE <<>>])

\* The chunks chat_stream has read from the stream of the current iteration.
StreamConsumed ==
    LET s == replies[Len(replies)] IN SubSeq(s, 1, Len(s) - Len(stream))

\* The running total after the first n iterations of chat_stream: each
\* iteration counts with the latest usage its stream reported.
RECURSIVE TotalAfter(_)
TotalAfter(n) ==
    IF n = 0 THEN Usage(Some(0), Some(0))
    ELSE LET us == UsagesOf(replies[n])
         IN IF us = <<>> THEN TotalAfter(n - 1)
            ELSE UsageAdd(TotalAfter(n - 1), us[Len(us)].usage)

(***************************************************************************)
(* C17: within one streamed turn whose chunks report cumulative usage      *)
(* totals, the usage reported at any time is the latest total reported,    *)
(* not the sum (100, 120, 150 completion tokens give 150).  In chat_stream *)
(* the total emitted after each Usage chunk is the total at the start of   *)
(* the iteration plus the latest reported usage of that iteration.         *)
(***************************************************************************)
C17_UsageIsLatestTotal ==
    /\ adapter = "openai" =>
          \A k \in 1..Len(OkItems) :
              LET us == WireUsages(k)
              IN OkItems[k].response.usage =
                    IF us = <<>> THEN Usage(None, None)
                    ELSE Usage(Some(us[Len(us)].prompt_tokens),
                               Some(us[Len(us)].completion_tokens))
    /\ (mode = "chat_stream" /\ replies # <<>>) =>
          LET us == UsagesOf(StreamConsumed)
              ys == UsagesOf(yielded)
              base == TotalAfter(Len(replies) - 1)
          IN /\ request_base_usage = base
             /\ total_usage = IF us = <<>> THEN base
                              ELSE UsageAdd(base, us[Len(us)].usage)
             /\ Len(ys) >= Len(us)
             /\ \A i \in 1..Len(us) :
                   ys[Len(ys) - Len(us) + i].usage = UsageAdd(base, us[i].usage)

C17_Witness ==
    /\ adapter = "openai" /\ Len(OkItems) = 3 /\ Len(WireUsages(3)) = 3
    /\ WireUsages(3)[1].completion_tokens = 100
    /\ WireUsages(3)[2].completion_tokens = 120
    /\ WireUsages(3)[3].completion_tokens = 150
    /\ OkItems[3].response.usage.completion_tokens = Some(150)

TokensOf(o) == IF o = None THEN 0 ELSE o[1]

\* The prompt and completion tokens of the first n responses of chat, summed.
RECURSIVE PromptSum(_)
PromptSum(n) ==
    IF n = 0 THEN 0
    ELSE PromptSum(n - 1)
         + (IF reply_meta[n].usage = None THEN 0
            ELSE TokensOf(reply_meta[n].usage[1].prompt_tokens))
RECURSIVE CompletionSum(_)
CompletionSum(n) ==
    IF n = 0 THEN 0
    ELSE CompletionSum(n - 1)
         + (IF reply_meta[n].usage = None THEN 0
            ELSE TokensOf(reply_meta[n].usage[1].completion_tokens))

ChatReturnedOk == mode = "chat" /\ pc = "done" /\ result.status = "Ok"

(***************************************************************************)
(* C18: on a successful return of chat, usage.prompt_tokens and            *)
(* usage.completion_tokens are the sums over the responses of all          *)
(* iterations (a response without usage counts 0), and the finish reason   *)
(* is the one of the last response.                                        *)
(***************************************************************************)
C18_UsageIsSummed ==
    ChatReturnedOk =>
        LET n == Len(reply_meta)
        IN /\ n = Len(requests) /\ n >= 1
           /\ result.usage = Some(Usage(Some(PromptSum(n)), Some(CompletionSum(n))))
           /\ result.finish = reply_meta[n].finish

C18_Witness ==
    /\ ChatReturnedOk /\ Len(reply_meta) = 2
    /\ reply_meta[1].usage = Some(Usage(Some(1), Some(1)))
    /\ reply_meta[2].usage = Some(Usage(Some(1), Some(2)))
    /\ result.usage = Some(Usage(Some(2), Some(3)))
    /\ reply_meta[1].finish = "ToolCalls" /\ result.finish = "Stop"

(***************************************************************************)
(* C19: every chat and chat_stream invocation terminates, with a trace or  *)
(* with an error, provided each adapter request, each adapter stream and   *)
(* each tool call it waits on completes; a model that requests a tool in   *)
(* every turn cannot keep the loop running forever.                        *)
(***************************************************************************)
C19_Terminates ==
    (mode \in {"chat", "chat_stream"}) ~> (pc = "done" /\ result.status \in {"Ok", "Err"})

C19_Witness ==
    /\ mode = "chat_stream" /\ pc = "done" /\ max_iterations = 2
    /\ Len(requests) = 2 /\ Len(replies) = 2
    /\ \E j, k \in 1..Len(tool_log) : tool_log[j].iteration = 0 /\ tool_log[k].iteration = 1
    /\ result = MaxIterationsError

\* The adapter requests that returned an error.
FailedRequests == { i \in 1..Len(requests) : requests[i].error # None }

(***************************************************************************)
(* C20: when an adapter request fails in iteration k of chat, chat returns *)
(* that error to the caller at once: the failed request is not re-issued,  *)
(* no later adapter request is made and no tool call is dispatched after   *)
(* the failure.  The same holds of request_stream in chat_stream.          *)
(***************************************************************************)
C20_RequestErrorPropagates ==
    mode \in {"chat", "chat_stream"} =>
        \A k \in FailedRequests :
            /\ k = Len(requests)
            /\ Len(replies) = k - 1
            /\ pc = "done"
            /\ result = requests[k].error[1]
            /\ \A t \in 1..Len(tool_log) : tool_log[t].iteration < k - 1

C20_Witness ==
    /\ mode = "chat" /\ pc = "done"
    /\ FailedRequests = {2}
    /\ result.kind = "Http"
    /\ tool_log # <<>>

(***************************************************************************)
(* The mappings of the adapters between the canonical model and the wire   *)
(* (src/src/api/openai.rs, anthropic.rs, gemini.rs)                        *)
(***************************************************************************)
\* finish_reason strings a server may send: the four the tables name, and
\* two they do not.
FinishReasonsOnWire == {"stop", "length", "tool_calls", "content_filter", "function_call", ""}

\* Faulty variant of ResponseFinish: the table of another vendor.
ResponseFinishOtherTable(reason) ==
    CASE reason = "stop" -> "Stop"
      [] reason = "max_tokens" -> "OutputTokens"
      [] OTHER -> "Stop"
\* The finish-reason table of the non-streaming path.
ResponseFinish(reason) ==
    CASE reason = "stop" -> "Stop"
      [] reason = "length" -> "OutputTokens"
      [] reason = "tool_calls" -> "ToolCalls"
      [] reason = "content_filter" -> "ContentFilter"
      [] OTHER -> "Stop"

OpenAIToolCall(id, name, arguments) ==
    [id |-> id, call_type |-> "function",
     function |-> [name |-> name, arguments |-> arguments]]
OpenAIResponseMessage(content, tool_calls) ==
    [role |-> "assistant", content |-> content, tool_calls |-> tool_calls]
OpenAIChoice(message, finish) == [message |-> message, finish_reason |-> finish]
OpenAIResponse(choices, usage) == [choices |-> choices, usage |-> usage]

\* serde_json::from_str(arguments).unwrap_or(Value::Null)
ParseOrNull(text) == IF ParseJson(text).ok THEN ParseJson(text).value ELSE [t |-> "Null"]

\* impl From<OpenAIResponse> for Response
FromOpenAIResponse(resp) ==
    LET has == resp.choices # <<>>
        choice == resp.choices[1]
        text == IF has /\ choice.message.content # None
                THEN <<Text(choice.message.content[1])>> ELSE <<>>
        tcs == IF has /\ choice.message.tool_calls # None
               THEN choice.message.tool_calls[1] ELSE <<>>
        calls == [i \in 1..Len(tcs) |->
                    FunctionCall(Some(tcs[i].id), tcs[i].function.name,
                                 ParseOrNull(tcs[i].function.arguments))]
    IN [data |-> <<Assistant(text \o calls)>>,
        usage |-> IF resp.usage # None
                  THEN Usage(Some(resp.usage[1].prompt_tokens),
                             Some(resp.usage[1].completion_tokens))
                  ELSE Usage(None, None),
        finish |-> IF has /\ choice.finish_reason # None
                   THEN ResponseFinish(choice.finish_reason[1]) ELSE "Stop"]

\* Bodies a server may answer a non-streaming request with.
OpenAIResponses ==
    { OpenAIResponse(<<>>, None) } \cup
    { OpenAIResponse(<<OpenAIChoice(OpenAIResponseMessage(c, tc), f)>>, u) :
        c \in {None, Some(<<>>), Some(<<"a">>)},
        tc \in {None, Some(<<OpenAIToolCall("c1", <<"f">>, <<"{", "}">>)>>),
                Some(<<OpenAIToolCall("c1", <<"f">>, <<"{", "k", "}">>),
                       OpenAIToolCall("c2", <<"g">>, <<"{">>)>>)},
        f \in {None} \cup {Some(r) : r \in FinishReasonsOnWire},
        u \in {None, Some([prompt_tokens |-> 1, completion_tokens |-> 2])} }

Converted(op, a, arg, res) == Some([op |-> op, adapter |-> a, input |-> arg, output |-> res])

\* OpenAIClient::request, after a 2xx answer: openai_response.into()
OpenAIResponseInto(resp) ==
    /\ conversion' = Converted("response", "openai", resp, FromOpenAIResponse(resp))
    /\ UNCHANGED <<agentVars, adapterVars, pairVars, mcpVars, sseVars, optVars>>

\* OpenAIStream::create: the first chunk of a stream carries finish_reason.
OpenAIFinishChunk(reason) ==
    LET chunk == OpenAIStreamChunk(<<Choice(None, Some(reason))>>, None)
        st == ApplyChunk([parts |-> <<>>, map |-> <<>>, text_idx |-> None,
                          finish |-> "Unfinished", usage |-> Usage(None, None)], chunk)
    IN /\ conversion' = Converted("stream_chunk", "openai", chunk,
                                  [data |-> <<Assistant(st.parts)>>, usage |-> st.usage,
                                   finish |-> st.finish])
       /\ UNCHANGED <<agentVars, adapterVars, pairVars, mcpVars, sseVars, optVars>>
\* Value::to_string, in the abbreviated text that ParseJson reads.
ToJsonString(v) ==
    IF v.t = "Object"
    THEN <<"{">> \o [i \in 1..Len(v.fields) |-> v.fields[i][1]] \o <<"}">>
    ELSE IF v.t = "String" THEN <<"'">> \o v.s \o <<"'">>
    ELSE <<"n", "u", "l", "l">>

OpenAIContentText(t) == [type |-> "text", text |-> t]

\* OpenAIRequest::new: one round of the loop over msg.parts().  The model has
\* no Media parts.
OpenAIPart(acc, part) ==
    CASE part.kind = "Text" ->
            [acc EXCEPT !.content_parts = Append(@, OpenAIContentText(part.content))]
      [] part.kind = "FunctionCall" /\ part.id # None ->
            [acc EXCEPT !.tool_calls =
                Append(@, OpenAIToolCall(part.id[1], part.name, ToJsonString(part.arguments)))]
      [] part.kind = "FunctionResponse" /\ part.id # None ->
            [acc EXCEPT !.tool_call_id = Some(part.id[1]),
                        !.content_parts =
                            Append(@, OpenAIContentText(
                                IF part.response # EmptyObject
                                THEN ToJsonString(part.response) ELSE <<>>))]
      [] OTHER -> acc

RECURSIVE OpenAIParts(_, _)
OpenAIParts(acc, parts) ==
    IF parts = <<>> THEN acc ELSE OpenAIParts(OpenAIPart(acc, Head(parts)), Tail(parts))

OpenAIMessage(role, content, tool_call_id, tool_calls) ==
    [role |-> role, content |-> content, name |-> None, tool_call_id |-> tool_call_id,
     tool_calls |-> tool_calls]
OpenAIContentOfText(t) == [c |-> "Text", text |-> t]
OpenAIContentOfParts(ps) == [c |-> "Parts", parts |-> ps]

\* OpenAIRequest::new: one round of the loop over messages_in.
OpenAIMessageOf(msg) ==
    LET acc == OpenAIParts([content_parts |-> <<>>, tool_calls |-> <<>>,
                            tool_call_id |-> None], msg.parts)
        role == IF msg.role = "User" THEN "user" ELSE "assistant"
        final_role == IF acc.tool_call_id # None THEN "tool" ELSE role
        content == IF Len(acc.content_parts) = 1
                   THEN OpenAIContentOfText(acc.content_parts[1].text)
                   ELSE IF acc.content_parts # <<>>
                        THEN OpenAIContentOfParts(acc.content_parts)
                        ELSE OpenAIContentOfText(<<>>)
    IN OpenAIMessage(final_role, content, acc.tool_call_id, acc.tool_calls)

\* OpenAIRequest::new: the messages of the request body.  The other fields
\* of the body are copies of the options.
OpenAIRequestNew(messages_in, system) ==
    [messages |->
        (IF system # None
         THEN <<OpenAIMessage("system", OpenAIContentOfText(system[1]), None, <<>>)>>
         ELSE <<>>)
        \o [i \in 1..Len(messages_in) |-> OpenAIMessageOf(messages_in[i])]]

RECURSIVE Join(_, _)
\* Vec<String>::join(sep)
Join(strs, sep) ==
    IF strs = <<>> THEN <<>>
    ELSE IF Len(strs) = 1 THEN strs[1]
    ELSE strs[1] \o sep \o Join(Tail(strs), sep)

RECURSIVE TextsOf(_)
\* parts.iter().filter_map(|p| match p { Part::Text(t) => Some(t.clone()), _ => None })
TextsOf(parts) ==
    IF parts = <<>> THEN <<>>
    ELSE (IF Head(parts).kind = "Text" THEN <<Head(parts).content>> ELSE <<>>)
         \o TextsOf(Tail(parts))

AnthropicMessage(role, content) == [role |-> role, content |-> content]

RECURSIVE AnthropicMessages(_)
\* AnthropicRequest::new: the loop over messages_in.
AnthropicMessages(messages_in) ==
    IF messages_in = <<>> THEN <<>>
    ELSE LET msg == Head(messages_in)
             content == Join(TextsOf(msg.parts), <<"\n">>)
         IN (IF content # <<>>
             THEN <<AnthropicMessage(IF msg.role = "User" THEN "user" ELSE "assistant",
                                     content)>>
             ELSE <<>>)
            \o AnthropicMessages(Tail(messages_in))

AnthropicRequestNew(messages_in, instructions) ==
    [messages |-> AnthropicMessages(messages_in), system |-> instructions]

\* impl From<AnthropicResponse> for Response; content holds the text of each block.
FromAnthropicResponse(resp) ==
    [data |-> <<Assistant(<<Text(Join(resp.content, <<>>))>>)>>,
     usage |-> Some(Usage(Some(resp.usage.input_tokens), Some(resp.usage.output_tokens))),
     finish |-> CASE resp.stop_reason = Some("end_turn") -> "Stop"
                  [] resp.stop_reason = Some("max_tokens") -> "OutputTokens"
                  [] resp.stop_reason = Some("stop_sequence") -> "Stop"
                  [] OTHER -> "Stop"]

GFunctionResponse(name, resp) ==
    [g |-> "function_response", name |-> name, response |-> resp]

RECURSIVE GeminiParts(_)
\* impl From<Message> for GeminiContent: the loop over msg.parts()
GeminiParts(parts) ==
    IF parts = <<>> THEN <<>>
    ELSE LET part == Head(parts)
         IN (CASE part.kind = "Text" -> <<GText(FALSE, part.content)>>
               [] part.kind = "Reasoning" -> <<GText(TRUE, part.content)>>
               [] part.kind = "FunctionCall" -> <<GCall(part.name, part.arguments)>>
               [] part.kind = "FunctionResponse" ->
                      <<GFunctionResponse(part.name, part.response)>>
               [] OTHER -> <<>>)
            \o GeminiParts(Tail(parts))

GeminiContent(msg) ==
    [role |-> IF msg.role = "Assistant" THEN "model" ELSE "user",
     parts |-> GeminiParts(msg.parts)]

\* GeminiRequest::new: the contents of the request body.
GeminiRequestNew(messages_in) ==
    [contents |-> [i \in 1..Len(messages_in) |-> GeminiContent(messages_in[i])]]
\* Histories a caller may pass to request.
WireMessages ==
    { User(<<Text(<<"a">>)>>),
      Assistant(<<CallA>>),
      Assistant(<<Text(<<"a">>), CallA, CallB>>),
      Assistant(<<CallNoId>>),
      User(<<FunctionResponse(Some("c1"), Str("f"), JString(Str("r")))>>),
      User(<<FunctionResponse(Some("c1"), Str("f"), JString(Str("r"))),
             FunctionResponse(Some("c2"), Str("g"), EmptyObject)>>),
      User(<<FunctionResponse(None, Str("f"), JString(Str("r")))>>) }
Histories ==
    {<<>>} \cup {<<m>> : m \in WireMessages}
           \cup {<<m, n>> : m \in WireMessages, n \in WireMessages}

\* build_request: OpenAIRequest::new(messages, &self.model_options, ..)
OpenAIRequestOf(history, system) ==
    /\ conversion' = Converted("request", "openai", history,
                               OpenAIRequestNew(history, system))
    /\ UNCHANGED <<agentVars, adapterVars, pairVars, mcpVars, sseVars, optVars>>

\* Text contents a caller may send.
UserTexts == {<<>>, <<"a">>, <<" ">>, <<"a", "\n", "b">>, <<"a", " ">>}
Adapters == {"openai", "anthropic", "gemini"}

\* The request an adapter builds for a history.
RequestNew(a, history) ==
    CASE a = "openai" -> OpenAIRequestNew(history, None)
      [] a = "anthropic" -> AnthropicRequestNew(history, None)
      [] a = "gemini" -> GeminiRequestNew(history)

\* The text contents of the messages of a request body.
WireTexts(a, req) ==
    CASE a = "openai" ->
            Flatten([i \in 1..Len(req.messages) |->
                        IF req.messages[i].content.c = "Text"
                        THEN <<req.messages[i].content.text>>
                        ELSE [j \in 1..Len(req.messages[i].content.parts) |->
                                req.messages[i].content.parts[j].text]])
      [] a = "anthropic" -> [i \in 1..Len(req.messages) |-> req.messages[i].content]
      [] a = "gemini" ->
            Flatten([i \in 1..Len(req.contents) |->
                        [j \in 1..Len(req.contents[i].parts) |-> req.contents[i].parts[j].text]])

\* The canonical messages an adapter makes of a wire message with a text content.
FromWireText(a, text) ==
    CASE a = "openai" ->
            FromOpenAIResponse(OpenAIResponse(
                <<OpenAIChoice(OpenAIResponseMessage(Some(text), None), Some("stop"))>>,
                None)).data
      [] a = "anthropic" ->
            FromAnthropicResponse([content |-> <<text>>, stop_reason |-> Some("end_turn"),
                                   usage |-> [input_tokens |-> 1, output_tokens |-> 2]]).data
      [] a = "gemini" -> <<GeminiPartToMessage(GText(FALSE, text))>>

\* canonical -> wire -> canonical of one user text.
RoundTrip(a, s) ==
    LET req == RequestNew(a, <<User(<<Text(s)>>)>>)
        texts == WireTexts(a, req)
    IN /\ conversion' = Converted("round_trip", a, s,
                                  [wire |-> req,
                                   back |-> Flatten([i \in 1..Len(texts) |->
                                                        FromWireText(a, texts[i])])])
       /\ UNCHANGED <<agentVars, adapterVars, pairVars, mcpVars, sseVars, optVars>>

\* Status codes and bodies a server may answer with.
Statuses == {200, 204, 304, 400, 429, 500}
ErrorFields ==
    [type : {None, Some("invalid_request_error")}, code : {None, Some(429)},
     message : {None, Some("m")}]
Bodies ==
    { [kind |-> "response", raw |-> "{..}"], [kind |-> "text", raw |-> "oops"],
      [kind |-> "text", raw |-> ""] }
    \cup { [kind |-> "envelope", raw |-> "{error}", error |-> e] : e \in ErrorFields }

\* StatusCode::is_success
IsSuccess(status) == status \in 200..299

\* serde_json::from_str::<..ErrorResponse>(body) is Ok
EnvelopeParses(a, body) ==
    /\ body.kind = "envelope"
    /\ body.error.message # None
    /\ IF a = "gemini" THEN body.error.code # None ELSE body.error.type # None

VendorName(a) ==
    CASE a = "openai" -> "OpenAI" [] a = "anthropic" -> "Anthropic" [] a = "gemini" -> "Gemini"

\* Faulty variant of HandleErrorResponse: every failure is reported raw.
HandleErrorResponseRaw(a, status, body) ==
    ProviderError(<<"HTTP ", ToString(status), ": ", body.raw>>)
\* handle_error_response of the three adapters
HandleErrorResponse(a, status, body) ==
    IF EnvelopeParses(a, body)
    THEN ProviderError(<<VendorName(a), " error (",
                         IF a = "gemini" THEN ToString(body.error.code[1])
                         ELSE body.error.type[1],
                         "): ", body.error.message[1]>>)
    ELSE ProviderError(<<"HTTP ", ToString(status), ": ", body.raw>>)

\* request and request_stream of an adapter, from the answer of the server on.
HttpRequest(a, streaming, status, body) ==
    /\ ~(a = "anthropic" /\ streaming)
    /\ conversion' =
         Converted("http", a,
                   [streaming |-> streaming, sent |-> TRUE, status |-> status, body |-> body],
                   IF ~IsSuccess(status) THEN HandleErrorResponse(a, status, body)
                   ELSE IF streaming THEN [status |-> "Ok", kind |-> "Stream"]
                   ELSE IF body.kind = "response" THEN [status |-> "Ok", kind |-> "Response"]
                   ELSE [status |-> "Err", kind |-> "Parse", msg |-> <<"malformed body">>])
    /\ UNCHANGED <<agentVars, adapterVars, pairVars, mcpVars, sseVars, optVars>>

\* AnthropicClient::request_stream: the placeholder sends nothing.
AnthropicRequestStream ==
    /\ conversion' =
         Converted("http", "anthropic", [streaming |-> TRUE, sent |-> FALSE],
                   ProviderError(<<"Streaming not yet implemented for Anthropic">>))
    /\ UNCHANGED <<agentVars, adapterVars, pairVars, mcpVars, sseVars, optVars>>

WireNext ==
    \/ \E resp \in OpenAIResponses : OpenAIResponseInto(resp)
    \/ \E reason \in FinishReasonsOnWire : OpenAIFinishChunk(reason)
    \/ \E history \in Histories, system \in {None, Some(<<"s">>)} :
          OpenAIRequestOf(history, system)
    \/ \E a \in Adapters, s \in UserTexts : RoundTrip(a, s)
    \/ \E a \in Adapters, streaming \in BOOLEAN, status \in Statuses, body \in Bodies :
          HttpRequest(a, streaming, status, body)
    \/ AnthropicRequestStream

SpecWire == Init /\ [][WireNext]_vars

\* C21: the finish-reason table of the OpenAI-compatible adapter maps "stop" to
\* Stop, "length" to OutputTokens, "tool_calls" to ToolCalls, "content_filter"
\* to ContentFilter and every other string to Stop, and the streaming and
\* the non-streaming path agree on every wire value.
FinishTable(reason) ==
    IF reason = "stop" THEN "Stop"
    ELSE IF reason = "length" THEN "OutputTokens"
    ELSE IF reason = "tool_calls" THEN "ToolCalls"
    ELSE IF reason = "content_filter" THEN "ContentFilter"
    ELSE "Stop"
WireReason(c) ==
    IF c.input.choices = <<>> THEN None ELSE c.input.choices[1].finish_reason
C21_FinishMappingTotal ==
    \A i \in 1..Len(conversion) :
        LET c == conversion[i]
        IN (c.op \in {"response", "stream_chunk"} /\ WireReason(c) # None) =>
              /\ c.output.finish = FinishTable(WireReason(c)[1])
              /\ OpenAIFinish(WireReason(c)[1]) = ResponseFinish(WireReason(c)[1])
C21_Witness ==
    /\ conversion # None
    /\ conversion[1].op = "response"
    /\ WireReason(conversion[1]) = Some("function_call")
    /\ conversion[1].output.finish = "Stop"

\* C27: the OpenAI-compatible request carries one tool_calls entry per
\* FunctionCall part of the history, with the id of the part, and one
\* tool-role message per FunctionResponse part, with the id of the part as
\* tool_call_id; no such part is omitted and no two FunctionResponse parts
\* share one tool message.
IsToolMessage(m) == m.role = "tool"
WireCallIds(req) ==
    Flatten([i \in 1..Len(req.messages) |->
                [j \in 1..Len(req.messages[i].tool_calls) |->
                    Some(req.messages[i].tool_calls[j].id)]])
WireResponseIds(req) ==
    LET tool == SelectSeq(req.messages, IsToolMessage)
    IN [i \in 1..Len(tool) |-> tool[i].tool_call_id]
IdsOf(parts) == [i \in 1..Len(parts) |-> parts[i].id]
C27_ToolCorrelationPreserved ==
    \A i \in 1..Len(conversion) :
        LET c == conversion[i]
        IN c.op = "request" =>
              /\ WireCallIds(c.output) = IdsOf(CallsIn(c.input))
              /\ WireResponseIds(c.output) = IdsOf(ResponsesIn(c.input))

\* C28: for every adapter and every string s, the user message with the one
\* Text part s reaches the wire as one message, and a wire message with that
\* text maps back to a Text part with content s.
C28_UserTextRoundTrip ==
    \A i \in 1..Len(conversion) :
        LET c == conversion[i]
        IN c.op = "round_trip" =>
              /\ Len(c.output.back) = 1
              /\ c.output.back[1].parts = <<Text(c.input)>>

\* C29: a status outside 2xx makes request and request_stream fail with a
\* ProviderError; it carries the type (or code) and the message of the
\* vendor's error envelope when the body parses as one, and the status and the
\* body otherwise.
Carries(msg, x) == \E k \in 1..Len(msg) : msg[k] = x
C29_ErrorStatusIsProviderError ==
    \A i \in 1..Len(conversion) :
        LET c == conversion[i]
            body == c.input.body
        IN (c.op = "http" /\ c.input.sent /\ c.input.status \notin 200..299) =>
              /\ c.output.status = "Err"
              /\ c.output.kind = "ProviderError"
              /\ IF /\ body.kind = "envelope"
                    /\ body.error.message # None
                    /\ (IF c.adapter = "gemini" THEN body.error.code
                        ELSE body.error.type) # None
                 THEN /\ Carries(c.output.msg, body.error.message[1])
                      /\ Carries(c.output.msg,
                                 IF c.adapter = "gemini" THEN ToString(body.error.code[1])
                                 ELSE body.error.type[1])
                      /\ ~Carries(c.output.msg, "HTTP ")
                 ELSE /\ Carries(c.output.msg, ToString(c.input.status))
                      /\ Carries(c.output.msg, body.raw)
                      /\ Carries(c.output.msg, "HTTP ")
C29_Witness ==
    /\ conversion # None
    /\ conversion[1].op = "http"
    /\ conversion[1].adapter = "gemini"
    /\ conversion[1].input.streaming
    /\ conversion[1].input.status = 429
    /\ conversion[1].input.body.kind = "envelope"
    /\ conversion[1].output = ProviderError(<<"Gemini", " error (", "429", "): ", "m">>)

(***************************************************************************)
(* MultiMCPServer (src/src/mcp.rs)                                         *)
(***************************************************************************)
\* Number of members of an aggregator.
MaxServers == 2

\* The ids Uuid::new_v4 hands out; an id is never handed out twice.
Uuids == 1..MaxServers
\* Ids a caller may route by: none, a registered one, or one that no
\* aggregator ever registered (0).
RoutingIds == {None} \cup {Some(id) : id \in 0..MaxServers}

\* Servers that can be members: what each lists, and whether it answers.
MemberServers ==
    { [tools |-> <<"f">>, prompts |-> <<"p">>, resources |-> <<"r">>, up |-> TRUE],
      [tools |-> <<"f", "g">>, prompts |-> <<>>, resources |-> <<>>, up |-> TRUE],
      [tools |-> <<"g">>, prompts |-> <<"p">>, resources |-> <<"r">>, up |-> FALSE] }
ToolNames == {"f", "g", "h"}
PromptNames == {"p", "x"}
ResourceUris == {"r", "x"}
ToolArgs == {EmptyObject, ArgsObj}

Served(value, server_id) == [value |-> value, server_id |-> server_id]
McpOk(value) == [status |-> "Ok", value |-> value]
McpErr(kind, detail) == [status |-> "Err", kind |-> kind, detail |-> detail]
\* One call on a member, as the member sees it.
Contact(id, op, name, args) == [member |-> id, op |-> op, name |-> name, args |-> args]
Ran(contacts, outcome) == [contacts |-> contacts, outcome |-> outcome]

Listed(member, op) ==
    CASE op = "list_tools" -> member.tools
      [] op = "list_prompts" -> member.prompts
      [] op = "list_resources" -> member.resources
Has(listing, name) == \E k \in 1..Len(listing) : listing[k] = name

\* list_tools / list_prompts / list_resources of a member
MemberList(member, op) ==
    IF member.up
    THEN McpOk([k \in 1..Len(Listed(member, op)) |-> Served(Listed(member, op)[k], None)])
    ELSE McpErr("Mcp", "list failed")
\* call_tool of a member
MemberCallTool(member, id, name, args) ==
    IF member.up /\ Has(member.tools, name)
    THEN McpOk([kind |-> "FunctionResponse", id |-> None, name |-> name,
                response |-> JObject(<< <<"by", id>>, <<"args", args>> >>)])
    ELSE McpErr("Mcp", "call failed")
\* get_prompt / read_resource of a member
MemberGet(member, id, op, name) ==
    IF member.up /\ Has(IF op = "get_prompt" THEN member.prompts ELSE member.resources, name)
    THEN McpOk(Served([of |-> name, by |-> id], None))
    ELSE McpErr("Mcp", "get failed")

\* The orders in which a HashMap may iterate over its keys.
Orders ==
    LET ids == DOMAIN servers
    IN { o \in [1..Cardinality(ids) -> ids] :
            \A i, j \in 1..Cardinality(ids) : o[i] = o[j] => i = j }

\* MultiMCPServer::from_servers
FromServers(list) ==
    /\ DOMAIN servers = {}
    /\ mcp_ops = <<>>
    /\ \E ids \in [1..Len(list) -> Uuids] :
          /\ \A i, j \in 1..Len(list) : ids[i] = ids[j] => i = j
          /\ servers' = [id \in {ids[i] : i \in 1..Len(list)} |->
                            list[CHOOSE i \in 1..Len(list) : ids[i] = id]]
    /\ UNCHANGED <<mcp_ops, agentVars, adapterVars, pairVars, sseVars, wireVars, optVars>>

\* MultiMCPServer::add_server and add_boxed_server.  They take the
\* aggregator by value; the registry is filled before the first use.
AddServer(member) ==
    /\ mcp_ops = <<>>
    /\ Cardinality(DOMAIN servers) < MaxServers
    /\ \E id \in Uuids \ DOMAIN servers :
          servers' = [i \in DOMAIN servers \cup {id} |->
                         IF i = id THEN member ELSE servers[i]]
    /\ UNCHANGED <<mcp_ops, agentVars, adapterVars, pairVars, sseVars, wireVars, optVars>>

\* Faulty variant of Tagged: the descriptor keeps the tag of the member.
TaggedAsListed(item, id) == item
\* t.server_id = Some(id.clone())
Tagged(item, id) == [item EXCEPT !.server_id = Some(id)]

RECURSIVE ListAll(_, _, _, _, _)
\* The loop of list_tools / list_prompts / list_resources over
\* &self.servers, from the k-th member of the iteration order on.
ListAll(op, order, k, contacts, all) ==
    IF k > Len(order) THEN Ran(contacts, McpOk(all))
    ELSE LET id == order[k]
             r == MemberList(servers[id], op)
             c == Append(contacts, Contact(id, op, None, None))
         IN IF r.status = "Err" THEN Ran(c, r)
            ELSE ListAll(op, order, k + 1, c,
                         all \o [i \in 1..Len(r.value) |-> Tagged(r.value[i], id)])

Operation(op, name, args, server_id, run) ==
    [op |-> op, name |-> name, args |-> args, server_id |-> server_id,
     contacts |-> run.contacts, outcome |-> run.outcome]
ListOps == {"list_tools", "list_prompts", "list_resources"}
\* What the caller holds: the latest listing and the call that followed it.
AfterListing(entry) ==
    (IF mcp_ops # <<>> /\ mcp_ops[1].op \in ListOps THEN <<mcp_ops[1]>> ELSE <<>>)
    \o <<entry>>

\* MultiMCPServer::list_tools
ListTools ==
    /\ DOMAIN servers # {}
    /\ \E order \in Orders :
          mcp_ops' = <<Operation("list_tools", None, None, None,
                                 ListAll("list_tools", order, 1, <<>>, <<>>))>>
    /\ UNCHANGED <<servers, agentVars, adapterVars, pairVars, sseVars, wireVars, optVars>>

\* MultiMCPServer::list_prompts
ListPrompts ==
    /\ DOMAIN servers # {}
    /\ \E order \in Orders :
          mcp_ops' = <<Operation("list_prompts", None, None, None,
                                 ListAll("list_prompts", order, 1, <<>>, <<>>))>>
    /\ UNCHANGED <<servers, agentVars, adapterVars, pairVars, sseVars, wireVars, optVars>>

\* MultiMCPServer::list_resources
ListResources ==
    /\ DOMAIN servers # {}
    /\ \E order \in Orders :
          mcp_ops' = <<Operation("list_resources", None, None, None,
                                 ListAll("list_resources", order, 1, <<>>, <<>>))>>
    /\ UNCHANGED <<servers, agentVars, adapterVars, pairVars, sseVars, wireVars, optVars>>

\* Faulty variant of CallToolById: the call goes to every member.
CallToolBroadcast(name, args, id) ==
    LET o == CHOOSE order \in Orders : TRUE
    IN Ran([k \in 1..Len(o) |-> Contact(o[k], "call_tool", name, args)],
           MemberCallTool(servers[o[1]], o[1], name, args))
\* call_tool, server_id = Some(id)
CallToolById(name, args, id) ==
    IF id \in DOMAIN servers
    THEN Ran(<<Contact(id, "call_tool", name, args)>>,
             MemberCallTool(servers[id], id, name, args))
    ELSE Ran(<<>>, McpErr("ServerNotFound", id))

RECURSIVE CallToolByName(_, _, _, _, _)
\* call_tool, server_id = None: the loop over self.servers.values(), from
\* the k-th member of the iteration order on.
CallToolByName(name, args, order, k, contacts) ==
    IF k > Len(order) THEN Ran(contacts, McpErr("ToolNotFound", name))
    ELSE LET id == order[k]
             r == MemberList(servers[id], "list_tools")
             c == Append(contacts, Contact(id, "list_tools", None, None))
         IN IF r.status = "Err" THEN Ran(c, r)
            ELSE IF \E i \in 1..Len(r.value) : r.value[i].value = name
                 THEN Ran(Append(c, Contact(id, "call_tool", name, args)),
                          MemberCallTool(servers[id], id, name, args))
                 ELSE CallToolByName(name, args, order, k + 1, c)

\* MultiMCPServer::call_tool
CallTool(name, args, server_id) ==
    /\ DOMAIN servers # {}
    /\ IF server_id # None
       THEN mcp_ops' = AfterListing(Operation("call_tool", name, args, server_id,
                                              CallToolById(name, args, server_id[1])))
       ELSE \E order \in Orders :
               mcp_ops' = AfterListing(Operation("call_tool", name, args, server_id,
                                           CallToolByName(name, args, order, 1, <<>>)))
    /\ UNCHANGED <<servers, agentVars, adapterVars, pairVars, sseVars, wireVars, optVars>>

\* get_prompt / read_resource: routed by the id of the descriptor only.
GetRouted(op, descriptor) ==
    IF descriptor.server_id # None
    THEN LET id == descriptor.server_id[1]
         IN IF id \in DOMAIN servers
            THEN Ran(<<Contact(id, op, descriptor.value, None)>>,
                     MemberGet(servers[id], id, op, descriptor.value))
            ELSE Ran(<<>>, McpErr("ServerNotFound", id))
    ELSE Ran(<<>>, McpErr("ServerIdMismatch", None))

\* MultiMCPServer::get_prompt
GetPrompt(prompt) ==
    /\ DOMAIN servers # {}
    /\ mcp_ops' = AfterListing(Operation("get_prompt", prompt.value, None, prompt.server_id,
                                         GetRouted("get_prompt", prompt)))
    /\ UNCHANGED <<servers, agentVars, adapterVars, pairVars, sseVars, wireVars, optVars>>

\* MultiMCPServer::read_resource
ReadResource(resource) ==
    /\ DOMAIN servers # {}
    /\ mcp_ops' = AfterListing(Operation("read_resource", resource.value, None,
                                         resource.server_id,
                                         GetRouted("read_resource", resource)))
    /\ UNCHANGED <<servers, agentVars, adapterVars, pairVars, sseVars, wireVars, optVars>>

McpNext ==
    \/ \E n \in 1..MaxServers : \E list \in [1..n -> MemberServers] : FromServers(list)
    \/ \E member \in MemberServers : AddServer(member)
    \/ ListTools
    \/ ListPrompts
    \/ ListResources
    \/ \E name \in ToolNames, args \in ToolArgs, server_id \in RoutingIds :
          CallTool(name, args, server_id)
    \/ \E name \in PromptNames, server_id \in RoutingIds : GetPrompt(Served(name, server_id))
    \/ \E uri \in ResourceUris, server_id \in RoutingIds : ReadResource(Served(uri, server_id))

SpecMcp == Init /\ [][McpNext]_vars

\* C22: call_tool with server_id = Some(id) calls call_tool once, with the
\* same name and arguments, on the member registered under id and contacts no
\* other member; when id is not registered it fails with ServerNotFound and
\* contacts no member.
C22_RoutedByServerId ==
    \A i \in 1..Len(mcp_ops) :
        LET e == mcp_ops[i]
        IN (e.op = "call_tool" /\ e.server_id # None) =>
              IF e.server_id[1] \in DOMAIN servers
              THEN e.contacts = <<Contact(e.server_id[1], "call_tool", e.name, e.args)>>
              ELSE /\ e.contacts = <<>>
                   /\ e.outcome.status = "Err"
                   /\ e.outcome.kind = "ServerNotFound"
C22_Witness ==
    /\ Cardinality(DOMAIN servers) = 2
    /\ mcp_ops # <<>>
    /\ LET e == mcp_ops[Len(mcp_ops)]
       IN /\ e.op = "call_tool" /\ e.server_id = Some(2) /\ e.name = "g" /\ e.args = ArgsObj
          /\ e.contacts = <<Contact(2, "call_tool", "g", ArgsObj)>>
          /\ e.outcome.status = "Ok"

\* C23: call_tool without server_id calls call_tool on exactly one member,
\* whose listing holds the name, when some member lists the name; when no
\* member lists it, it fails with ToolNotFound and calls call_tool on none.
IsCallContact(c) == c.op = "call_tool"
Lists(id, name) == servers[id].up /\ Has(servers[id].tools, name)
C23_ProbedByName ==
    \A i \in 1..Len(mcp_ops) :
        LET e == mcp_ops[i]
            calls == SelectSeq(e.contacts, IsCallContact)
        IN (e.op = "call_tool" /\ e.server_id = None) =>
              IF \E id \in DOMAIN servers : Lists(id, e.name)
              THEN /\ Len(calls) = 1
                   /\ Lists(calls[1].member, e.name)
              ELSE /\ calls = <<>>
                   /\ e.outcome.status = "Err"
                   /\ e.outcome.kind = "ToolNotFound"

\* C24: get_prompt and read_resource with a descriptor without server id
\* find a member that lists the name / uri and route the call to it, and fail
\* with a NotFound-class error only when no member lists it.
IsGetContact(c) == c.op \in {"get_prompt", "read_resource"}
Exposes(id, op, name) ==
    /\ servers[id].up
    /\ Has(IF op = "get_prompt" THEN servers[id].prompts ELSE servers[id].resources, name)
C24_DescriptorProbedByName ==
    \A i \in 1..Len(mcp_ops) :
        LET e == mcp_ops[i]
            gets == SelectSeq(e.contacts, IsGetContact)
        IN (e.op \in {"get_prompt", "read_resource"} /\ e.server_id = None) =>
              IF \E id \in DOMAIN servers : Exposes(id, e.op, e.name)
              THEN /\ Len(gets) = 1
                   /\ Exposes(gets[1].member, e.op, e.name)
              ELSE /\ e.outcome.status = "Err"
                   /\ e.outcome.kind \in {"PromptNotFound", "ResourceNotFound"}

\* C25: a listing of the aggregator holds the descriptors of every member, each
\* once, in the member's order and tagged with Some(id) of that member; a
\* call_tool with the name and the tag of a listed tool reaches that member and
\* no other.
TaggedWith(listing, id) ==
    LET mine(item) == item.server_id = Some(id)
        sel == SelectSeq(listing, mine)
    IN [k \in 1..Len(sel) |-> sel[k].value]
C25_ListingsTaggedAndRoutable ==
    /\ \A i \in 1..Len(mcp_ops) :
          LET e == mcp_ops[i]
          IN (e.op \in ListOps /\ e.outcome.status = "Ok") =>
                /\ \A id \in DOMAIN servers :
                      TaggedWith(e.outcome.value, id) = Listed(servers[id], e.op)
                /\ \A k \in 1..Len(e.outcome.value) :
                      \E id \in DOMAIN servers : e.outcome.value[k].server_id = Some(id)
    /\ (/\ Len(mcp_ops) = 2
        /\ mcp_ops[1].op = "list_tools" /\ mcp_ops[1].outcome.status = "Ok"
        /\ mcp_ops[2].op = "call_tool"
        /\ \E k \in 1..Len(mcp_ops[1].outcome.value) :
              mcp_ops[1].outcome.value[k] = Served(mcp_ops[2].name, mcp_ops[2].server_id))
       => /\ mcp_ops[2].contacts =
                <<Contact(mcp_ops[2].server_id[1], "call_tool", mcp_ops[2].name,
                          mcp_ops[2].args)>>
          /\ Has(servers[mcp_ops[2].server_id[1]].tools, mcp_ops[2].name)
          /\ mcp_ops[2].outcome.status = "Ok"
C25_Witness ==
    /\ Len(mcp_ops) = 2
    /\ mcp_ops[1].op = "list_tools"
    /\ mcp_ops[1].outcome = McpOk(<<Served("f", Some(2)), Served("f", Some(1)),
                                    Served("g", Some(1))>>)
    /\ mcp_ops[2].op = "call_tool" /\ mcp_ops[2].name = "f" /\ mcp_ops[2].server_id = Some(1)
    /\ mcp_ops[2].contacts = <<Contact(1, "call_tool", "f", EmptyObject)>>

(***************************************************************************)
(* The SSE decoder (src/src/sse.rs)                                        *)
(*                                                                         *)
(* A byte is a one-character string; "<C3>" and "<A9>" are the two bytes of *)
(* the character "e'" (U+00E9).                                            *)
(***************************************************************************)
\* Number of chunks of one HTTP body.
MaxSseChunks == 3

DataPrefix == <<"d", "a", "t", "a", ":", " ">>
DoneMarker == <<"[", "D", "O", "N", "E", "]">>
Whitespace == {" ", "\t", "\r", "\n"}

Bytes(bs) == [kind |-> "bytes", bytes |-> bs]
ByteError == [kind |-> "err"]

\* What one item of bytes_stream() may be.
SseChunks ==
    { Bytes(DataPrefix \o <<"a", "\n">>),
      Bytes(DataPrefix \o <<" ", "b", " ", "\r", "\n", "\n">> \o DataPrefix \o <<"f", "\n">>),
      Bytes(<<"d", "a">>),
      Bytes(<<"t", "a", ":", " ", "c", "\n">>),
      Bytes(DataPrefix \o DoneMarker \o <<"\n">>),
      Bytes(<<":", " ", "k", "\n">>),
      Bytes(DataPrefix \o <<"<C3>", "<A9>", "\n">>),
      Bytes(DataPrefix \o <<"<C3>">>),
      Bytes(<<"<A9>", "\n">>),
      Bytes(DataPrefix \o <<"e">>),
      ByteError }
SseBodies == UNION {[1..n -> SseChunks] : n \in 0..MaxSseChunks}

\* std::str::from_utf8(&chunk) is Ok
IsUtf8(bs) ==
    \A k \in 1..Len(bs) :
        /\ bs[k] = "<C3>" => (k < Len(bs) /\ bs[k + 1] = "<A9>")
        /\ bs[k] = "<A9>" => (k > 1 /\ bs[k - 1] = "<C3>")

RECURSIVE Utf8Chars(_)
\* The characters of a well-formed byte string.
Utf8Chars(bs) ==
    IF bs = <<>> THEN <<>>
    ELSE IF Head(bs) = "<C3>" /\ Len(bs) >= 2
         THEN <<"e'">> \o Utf8Chars(Tail(Tail(bs)))
         ELSE <<Head(bs)>> \o Utf8Chars(Tail(bs))

RECURSIVE TrimStart(_)
TrimStart(s) == IF s # <<>> /\ Head(s) \in Whitespace THEN TrimStart(Tail(s)) ELSE s
RECURSIVE TrimEnd(_)
TrimEnd(s) ==
    IF s # <<>> /\ s[Len(s)] \in Whitespace THEN TrimEnd(SubSeq(s, 1, Len(s) - 1)) ELSE s
\* str::trim
Trim(s) == TrimEnd(TrimStart(s))

\* parse_sse_line
ParseSseLine(line) ==
    IF IsPrefix(DataPrefix, line)
    THEN Some(Trim(SubSeq(line, Len(DataPrefix) + 1, Len(line))))
    ELSE None

\* is_done_marker
IsDoneMarker(data) == data = DoneMarker

\* buffer.find('\n'): the position of the first newline, 0 when there is none.
FindNewline(s) ==
    IF \E k \in 1..Len(s) : s[k] = "\n"
    THEN CHOOSE k \in 1..Len(s) : s[k] = "\n" /\ \A j \in 1..(k - 1) : s[j] # "\n"
    ELSE 0

SseOk(data) == [ok |-> TRUE, data |-> data]
SseErrItem == [ok |-> FALSE]
\* What one round of the loop comes to: an item, the end of the stream, or
\* another round.
Returned(buf, ret, item) == [buffer |-> buf, ret |-> ret, item |-> item]

RECURSIVE DrainLines(_)
\* while let Some(pos) = buffer.find('\n') { .. }
DrainLines(buf) ==
    LET pos == FindNewline(buf)
        line == Trim(SubSeq(buf, 1, pos - 1))
        rest == SubSeq(buf, pos + 1, Len(buf))
    IN IF pos = 0 THEN Returned(buf, "continue", None)
       ELSE IF line = <<>> THEN DrainLines(rest)
       ELSE IF ParseSseLine(line) = None THEN DrainLines(rest)
       ELSE IF IsDoneMarker(ParseSseLine(line)[1]) THEN Returned(rest, "none", None)
       ELSE Returned(rest, "some", Some(SseOk(ParseSseLine(line)[1])))

\* if stream_ended { .. return None; }
Flush(buf) ==
    LET line == Trim(buf)
    IN IF /\ buf # <<>> /\ line # <<>>
          /\ ParseSseLine(line) # None
          /\ ~IsDoneMarker(ParseSseLine(line)[1])
       THEN Returned(<<>>, "some", Some(SseOk(ParseSseLine(line)[1])))
       ELSE Returned(<<>>, "none", None)

\* One round of the loop after the read: the lines of the buffer, then the
\* rest of it when the body has ended.
Round(buf, ended) ==
    LET d == DrainLines(buf)
    IN IF d.ret # "continue" THEN d
       ELSE IF ended THEN Flush(d.buffer)
       ELSE d

\* The state of the unfold after a round.
AfterRound(r) ==
    /\ buffer' = r.buffer
    /\ sse_items' = sse_items \o r.item
    /\ sse_state' = IF r.ret = "none" THEN "closed" ELSE "open"

\* response.sse() on a body
Sse(body) ==
    /\ sse_state = "idle"
    /\ sse_state' = "open"
    /\ byte_stream' = body
    /\ buffer' = <<>>
    /\ stream_ended' = FALSE
    /\ sse_received' = <<>>
    /\ sse_items' = <<>>
    /\ UNCHANGED <<agentVars, adapterVars, pairVars, mcpVars, wireVars, optVars>>

\* A round in which byte_stream.next() is Some(Ok(chunk)).
SseChunk ==
    /\ sse_state = "open" /\ ~stream_ended
    /\ byte_stream # <<>> /\ Head(byte_stream).kind = "bytes"
    /\ LET chunk == Head(byte_stream).bytes
           buf == IF IsUtf8(chunk) THEN buffer \o Utf8Chars(chunk) ELSE buffer
       IN AfterRound(Round(buf, FALSE))
    /\ byte_stream' = Tail(byte_stream)
    /\ sse_received' = Append(sse_received, Head(byte_stream))
    /\ UNCHANGED <<stream_ended, agentVars, adapterVars, pairVars, mcpVars, wireVars, optVars>>

\* A round in which byte_stream.next() is Some(Err(e)).
SseByteError ==
    /\ sse_state = "open" /\ ~stream_ended
    /\ byte_stream # <<>> /\ Head(byte_stream).kind = "err"
    /\ sse_items' = Append(sse_items, SseErrItem)
    /\ byte_stream' = Tail(byte_stream)
    /\ sse_received' = Append(sse_received, Head(byte_stream))
    /\ UNCHANGED <<buffer, stream_ended, sse_state, agentVars, adapterVars, pairVars, mcpVars,
                   wireVars, optVars>>

\* A round in which byte_stream.next() is None.
SseEnd ==
    /\ sse_state = "open" /\ ~stream_ended
    /\ byte_stream = <<>>
    /\ stream_ended' = TRUE
    /\ AfterRound(Round(buffer, TRUE))
    /\ UNCHANGED <<byte_stream, sse_received, agentVars, adapterVars, pairVars, mcpVars, wireVars,
                   optVars>>

\* A round after the body has ended.
SseAfterEnd ==
    /\ sse_state = "open" /\ stream_ended
    /\ AfterRound(Round(buffer, TRUE))
    /\ UNCHANGED <<byte_stream, stream_ended, sse_received, agentVars, adapterVars, pairVars,
                   mcpVars, wireVars, optVars>>

SseNext ==
    \/ \E body \in SseBodies : Sse(body)
    \/ SseChunk
    \/ SseByteError
    \/ SseEnd
    \/ SseAfterEnd

SpecSse == Init /\ [][SseNext]_vars

\* C26: the decoder yields, in order, the trimmed payload of every
\* `data: ` line of a UTF-8 body that precedes the first `[DONE]` line, nothing
\* for blank lines and lines without the prefix, nothing for `[DONE]` and
\* nothing for what follows it.
SseBodyBytes ==
    LET all == sse_received \o byte_stream
    IN Flatten([k \in 1..Len(all) |->
                   IF all[k].kind = "bytes" THEN all[k].bytes ELSE <<>>])

RECURSIVE SplitLines(_)
SplitLines(bs) ==
    IF FindNewline(bs) = 0 THEN <<bs>>
    ELSE <<SubSeq(bs, 1, FindNewline(bs) - 1)>>
         \o SplitLines(SubSeq(bs, FindNewline(bs) + 1, Len(bs)))

RECURSIVE DataPayloads(_)
DataPayloads(lines) ==
    IF lines = <<>> THEN <<>>
    ELSE LET line == Trim(Head(lines))
             payload == Trim(SubSeq(line, Len(DataPrefix) + 1, Len(line)))
         IN IF ~IsPrefix(DataPrefix, line) THEN DataPayloads(Tail(lines))
            ELSE IF payload = DoneMarker THEN <<>>
            ELSE <<Utf8Chars(payload)>> \o DataPayloads(Tail(lines))

IsSseOk(item) == item.ok
SseYielded ==
    LET oks == SelectSeq(sse_items, IsSseOk)
    IN [k \in 1..Len(oks) |-> oks[k].data]

\* The body is read as text: the claim is about bodies that are UTF-8.
C26_DataLinesUntilDone ==
    IsUtf8(SseBodyBytes) =>
        /\ IsPrefix(SseYielded, DataPayloads(SplitLines(SseBodyBytes)))
        /\ sse_state = "closed" => SseYielded = DataPayloads(SplitLines(SseBodyBytes))

(***************************************************************************)
(* TransportOptions (src/src/options.rs)                                   *)
(***************************************************************************)
\* Number of builder calls on one TransportOptions value.
MaxBuilderCalls == 3

\* Arguments of the builder calls: seconds, proxy URLs, header keys and values.
Durations == {1, 30}
ProxyUrls == {"http://p1", "http://p2"}
HeaderKeys == {"k1", "k2"}
HeaderValues == {"v1", "v2"}

BuilderCall(fn, key, value) == [fn |-> fn, key |-> key, value |-> value]

\* HashMap::insert
Insert(map, key, value) ==
    [k \in DOMAIN map \cup {key} |-> IF k = key THEN value ELSE map[k]]

\* TransportOptions::with_timeout
WithTimeout(duration) ==
    /\ Len(builder_calls) < MaxBuilderCalls
    /\ options' = [options EXCEPT !.timeout = Some(duration)]
    /\ builder_calls' = Append(builder_calls, BuilderCall("with_timeout", None, duration))
    /\ UNCHANGED <<agentVars, adapterVars, pairVars, mcpVars, sseVars, wireVars>>

\* TransportOptions::with_proxy
WithProxy(proxy_url) ==
    /\ Len(builder_calls) < MaxBuilderCalls
    /\ options' = [options EXCEPT !.proxy = Some(proxy_url)]
    /\ builder_calls' = Append(builder_calls, BuilderCall("with_proxy", None, proxy_url))
    /\ UNCHANGED <<agentVars, adapterVars, pairVars, mcpVars, sseVars, wireVars>>

\* Faulty variant of HeadersWith: the map is started anew by every call.
HeadersWithFresh(headers, key, value) == Some(Insert(<<>>, key, value))
\* headers.get_or_insert_with(HashMap::new).insert(key, value)
HeadersWith(headers, key, value) ==
    Some(Insert(IF headers = None THEN <<>> ELSE headers[1], key, value))

\* TransportOptions::with_header
WithHeader(key, value) ==
    /\ Len(builder_calls) < MaxBuilderCalls
    /\ options' = [options EXCEPT !.headers = HeadersWith(@, key, value)]
    /\ builder_calls' = Append(builder_calls, BuilderCall("with_header", Some(key), value))
    /\ UNCHANGED <<agentVars, adapterVars, pairVars, mcpVars, sseVars, wireVars>>

OptionsNext ==
    \/ \E duration \in Durations : WithTimeout(duration)
    \/ \E proxy_url \in ProxyUrls : WithProxy(proxy_url)
    \/ \E key \in HeaderKeys, value \in HeaderValues : WithHeader(key, value)

SpecOptions == Init /\ [][OptionsNext]_vars

\* C30: after any sequence of builder calls the timeout is that of the last
\* with_timeout, the proxy that of the last with_proxy, and every header key
\* has the value of the last with_header for that key; a field or key that no
\* call named is as TransportOptions::new() left it.
CallsOf(fn, key) ==
    LET named(c) == c.fn = fn /\ c.key = key
    IN SelectSeq(builder_calls, named)
LastOf(fn, key) ==
    IF CallsOf(fn, key) = <<>> THEN None
    ELSE Some(CallsOf(fn, key)[Len(CallsOf(fn, key))].value)
C30_BuilderStepsIndependent ==
    /\ options.timeout = LastOf("with_timeout", None)
    /\ options.proxy = LastOf("with_proxy", None)
    /\ options.headers = None <=> \A key \in HeaderKeys : LastOf("with_header", Some(key)) = None
    /\ options.headers # None =>
          \A key \in HeaderKeys :
              IF LastOf("with_header", Some(key)) = None
              THEN key \notin DOMAIN options.headers[1]
              ELSE /\ key \in DOMAIN options.headers[1]
                   /\ options.headers[1][key] = LastOf("with_header", Some(key))[1]
C30_Witness ==
    /\ Len(builder_calls) = 3
    /\ \A k \in 1..3 : builder_calls[k].fn = "with_header"
    /\ builder_calls = <<BuilderCall("with_header", Some("k1"), "v1"),
                         BuilderCall("with_header", Some("k2"), "v1"),
                         BuilderCall("with_header", Some("k1"), "v2")>>
    /\ options.headers[1]["k1"] = "v2"
    /\ options.headers[1]["k2"] = "v1"
    /\ options.timeout = None

(***************************************************************************)
(* C31: within one chat invocation the tool calls are dispatched one after *)
(* another in the order in which their FunctionCall parts appear, their    *)
(* FunctionResponses are appended in that same order, and the adapter      *)
(* request of the next iteration is issued only after every tool call of   *)
(* the iteration before it has returned.                                   *)
(***************************************************************************)
\* The FunctionCall parts of the replies i..j, in the order of their appearance.
CallsInOrder(i, j) ==
    SelectSeq(Flatten([k \in 1..(j - i + 1) |-> PartsOf(replies[i + k - 1])]), IsFunctionCall)

\* The tool calls that have returned in iteration n (0-based).
ReturnedIn(n) == SelectSeq(tool_log, LAMBDA e : e.iteration = n)

C31_OneFlowOfControl ==
    mode = "chat" =>
        LET calls == CallsInOrder(1, Len(replies))
            resps == ResponsesIn(Produced)
        IN /\ Len(tool_log) <= Len(calls)
           /\ Len(resps) = Len(tool_log)
           /\ \A k \in 1..Len(tool_log) :
                 /\ tool_log[k].name = calls[k].name
                 /\ tool_log[k].id = calls[k].id
                 /\ tool_log[k].arguments = calls[k].arguments
                 /\ resps[k].name = calls[k].name
                 /\ resps[k].id = calls[k].id
           /\ \A k \in 1..(Len(tool_log) - 1) :
                 tool_log[k].iteration <= tool_log[k + 1].iteration
           /\ \A i \in 1..(Len(requests) - 1) :
                 Len(ReturnedIn(i - 1)) = Len(CallsInOrder(i, i))
           /\ pc = "loop" => Len(tool_log) = Len(calls)

C31_Witness ==
    /\ mode = "chat"
    /\ pc = "done"
    /\ result.status = "Ok"
    /\ Len(requests) = 2
    /\ CallsInOrder(1, 1) = <<CallA, CallB>>
    /\ Len(tool_log) = 2
    /\ tool_log[1].name = Str("f")
    /\ tool_log[2].name = Str("g")

(***************************************************************************)
(* Two Agent::chat invocations on one Agent.  chat takes &self and its     *)
(* messages by value; new_messages, tools, total_usage and the loop        *)
(* position are locals of the call.  Each await (a resource read, the tool *)
(* listing, the adapter request, a tool call) is a suspension point at     *)
(* which the other invocation may run.  invocations[i] holds the locals of *)
(* invocation i and a log of what the adapter and the server returned to   *)
(* it.                                                                     *)
(***************************************************************************)
\* Iterations of an invocation that runs next to another one.
MaxPairIterations == 1

\* The callers pass different conversations and resource lists.
PairInput(i) == IF i = 1 THEN <<User(<<Text(Str("q"))>>)>> ELSE <<>>
PairResources(i) == IF i = 1 THEN { <<"u">> } ELSE { <<>>, <<"u">> }
PairResponses ==
    { r \in Responses : Len(r.data) = 1 }

\* The locals at the entry of chat (agent.rs:203-212).
Entered(msgs, res) ==
    [pc |-> "load_resources", input |-> msgs, messages |-> msgs, resources |-> res,
     new_messages |-> <<>>, tools |-> <<>>, total_usage |-> Usage(Some(0), Some(0)),
     iteration |-> 0, response |-> <<>>, pending |-> <<>>,
     tool_calls_executed |-> FALSE, result |-> Pending,
     agent |-> [max_iterations |-> max_iterations, server |-> server],
     loaded |-> <<>>, got |-> <<>>, outs |-> <<>>]

\* Faulty variant of PushHistory: the history is a field of the Agent that all
\* invocations push to.
PushHistoryShared(invs, i, msgs) ==
    [j \in DOMAIN invs |->
        IF invs[j].pc = "idle" THEN invs[j]
        ELSE [invs[j] EXCEPT !.messages = @ \o msgs]]
\* messages.push(..) on the `mut messages: Vec<Message>` of invocation i.
PushHistory(invs, i, msgs) == [invs EXCEPT ![i].messages = @ \o msgs]

PairFrame == UNCHANGED <<agentVars, adapterVars, mcpVars, sseVars, wireVars, optVars>>

PairChat(i, msgs, res) ==
    /\ pc = "built"
    /\ max_iterations <= MaxPairIterations
    /\ invocations[i].pc = "idle"
    /\ invocations' = [invocations EXCEPT ![i] = Entered(msgs, res)]
    /\ PairFrame

\* One read_resource().await of load_resources; after the last one the added
\* messages are copied to new_messages.
PairLoadResource(i) ==
    LET inv == invocations[i] IN
    /\ inv.pc = "load_resources"
    /\ inv.resources # <<>>
    /\ \E o \in ReadResourceOutcomes :
          LET added == IF o.ok THEN ResourceMessages(o.contents) ELSE <<>>
              pushed == PushHistory(invocations, i, added)
              copied == CopiedAfterLoad(pushed[i].messages, Len(inv.input))
          IN invocations' =
                [pushed EXCEPT ![i].resources = Tail(@),
                               ![i].loaded = @ \o added,
                               ![i].new_messages =
                                   IF Tail(inv.resources) = <<>> THEN @ \o copied ELSE @]
    /\ PairFrame

PairGetTools(i) ==
    LET inv == invocations[i] IN
    /\ inv.pc = "load_resources"
    /\ inv.resources = <<>>
    /\ \E o \in (IF server THEN ListOutcomes ELSE { [ok |-> FALSE, tools |-> <<>>] }) :
          invocations' = [invocations EXCEPT ![i].tools = IF o.ok THEN o.tools ELSE <<>>,
                                             ![i].pc = "loop"]
    /\ PairFrame

PairMaxIterationsReached(i) ==
    LET inv == invocations[i] IN
    /\ inv.pc = "loop"
    /\ ~(inv.iteration < max_iterations)
    /\ invocations' = [invocations EXCEPT
                          ![i].result = ConfigError("Max iterations reached in agent loop"),
                          ![i].pc = "done"]
    /\ PairFrame

PairRequest(i) ==
    LET inv == invocations[i] IN
    /\ inv.pc = "loop"
    /\ inv.iteration < max_iterations
    /\ \/ \E e \in {ProviderError("request failed")} :
             invocations' = [invocations EXCEPT ![i].result = e, ![i].pc = RequestErrorExit]
       \/ \E r \in PairResponses :
             invocations' = [invocations EXCEPT
                                ![i].response = r.data,
                                ![i].got = Append(@, r),
                                ![i].total_usage = AddResponseUsage(@, r.usage),
                                ![i].tool_calls_executed = FALSE,
                                ![i].pending = <<>>,
                                ![i].pc = "process"]
    /\ PairFrame

PairProcessMessage(i) ==
    LET inv == invocations[i] IN
    /\ inv.pc = "process"
    /\ inv.pending = <<>>
    /\ inv.response # <<>>
    /\ invocations' =
          [PushHistory(invocations, i, <<Head(inv.response)>>) EXCEPT
              ![i].new_messages = TraceWith(@, Head(inv.response)),
              ![i].pending = SelectCalls(Head(inv.response).parts),
              ![i].response = Tail(@)]
    /\ PairFrame

PairExecuteTool(i) ==
    LET inv == invocations[i] IN
    /\ inv.pc = "process"
    /\ inv.pending # <<>>
    /\ \E o \in ExecuteToolOutcomes :
          invocations' =
             [PushHistory(invocations, i, ResponseMessages(Head(inv.pending), o)) EXCEPT
                 ![i].new_messages = @ \o ResponseMessages(Head(inv.pending), o),
                 ![i].tool_calls_executed = TRUE,
                 ![i].outs = Append(@, o),
                 ![i].pending = Tail(@)]
    /\ PairFrame

PairEndIteration(i) ==
    LET inv == invocations[i] IN
    /\ inv.pc = "process"
    /\ inv.pending = <<>>
    /\ inv.response = <<>>
    /\ invocations' =
          IF ~inv.tool_calls_executed
          THEN [invocations EXCEPT
                   ![i].result = [status |-> "Ok", data |-> inv.new_messages,
                                  usage |-> Some(inv.total_usage),
                                  finish |-> inv.got[Len(inv.got)].finish],
                   ![i].pc = "done"]
          ELSE [invocations EXCEPT ![i].iteration = @ + 1, ![i].pc = "loop"]
    /\ PairFrame

\* The builders take self by value: they run before any invocation borrows the
\* Agent.
PairNext ==
    \/ (\A i \in Callers : invocations[i].pc = "idle") /\ WithServer
    \/ (\A i \in Callers : invocations[i].pc = "idle")
          /\ \E max \in 0..MaxIterations : WithMaxIterations(max)
    \/ \E i \in Callers : \E res \in PairResources(i) : PairChat(i, PairInput(i), res)
    \/ \E i \in Callers : PairLoadResource(i)
    \/ \E i \in Callers : PairGetTools(i)
    \/ \E i \in Callers : PairMaxIterationsReached(i)
    \/ \E i \in Callers : PairRequest(i)
    \/ \E i \in Callers : PairProcessMessage(i)
    \/ \E i \in Callers : PairExecuteTool(i)
    \/ \E i \in Callers : PairEndIteration(i)

SpecPair == Init /\ [][PairNext]_vars

(***************************************************************************)
(* C32: two chat invocations that run concurrently on one Agent do not     *)
(* interfere: the history, the trace and the usage total of each are those *)
(* of a run on its own with the same adapter and tool results, and neither *)
(* changes max_iterations or server of the Agent.                          *)
(***************************************************************************)
\* What a chat running on its own appends for the messages it received, given
\* the outcomes of its tool calls in the order of the calls.
RECURSIVE AloneAppends(_, _)
AloneAppends(msgs, outs) ==
    IF msgs = <<>> THEN <<>>
    ELSE LET calls == SelectSeq(Head(msgs).parts, IsFunctionCall)
             n == IF Len(calls) <= Len(outs) THEN Len(calls) ELSE Len(outs)
         IN <<Head(msgs)>>
            \o [k \in 1..n |->
                  User(<<FunctionResponse(calls[k].id, calls[k].name,
                            IF outs[k].ok THEN outs[k].value ELSE ErrorObject(outs[k].err))>>)]
            \o (IF n < Len(calls) THEN <<>>
                ELSE AloneAppends(Tail(msgs), SubSeq(outs, n + 1, Len(outs))))

RECURSIVE AloneUsage(_)
AloneUsage(got) ==
    IF got = <<>> THEN Usage(Some(0), Some(0))
    ELSE LET before == AloneUsage(SubSeq(got, 1, Len(got) - 1))
             u == got[Len(got)].usage
         IN IF u = None THEN before ELSE UsageAdd(before, u[1])

\* The messages of the responses invocation i has received and taken up.
TakenUp(inv) ==
    LET all == Flatten([k \in 1..Len(inv.got) |-> inv.got[k].data])
    IN SubSeq(all, 1, Len(all) - Len(inv.response))

AloneTrace(inv) ==
    (IF inv.resources = <<>> THEN inv.loaded ELSE <<>>)
    \o AloneAppends(TakenUp(inv), inv.outs)

AloneHistory(inv) == inv.input \o inv.loaded \o AloneAppends(TakenUp(inv), inv.outs)

BothRunning == \A i \in Callers : invocations[i].pc # "idle"

C32_InvocationsIndependent ==
    \A i \in Callers :
        LET inv == invocations[i] IN
        inv.pc # "idle" =>
            /\ inv.messages = AloneHistory(inv)
            /\ inv.new_messages = AloneTrace(inv)
            /\ inv.total_usage = AloneUsage(inv.got)
            /\ inv.agent = [max_iterations |-> max_iterations, server |-> server]
            /\ (inv.pc = "done" /\ inv.result.status = "Ok") =>
                  /\ inv.result.data = AloneTrace(inv)
                  /\ inv.result.usage = Some(AloneUsage(inv.got))

\* Both invocations have made tool calls, and the second one to start has
\* finished while the first was still between two of its suspension points.
C32_Witness ==
    /\ BothRunning
    /\ invocations[1].pc = "process"
    /\ invocations[1].outs # <<>>
    /\ invocations[1].pending # <<>>
    /\ invocations[2].pc = "done"
    /\ invocations[2].outs # <<>>
    /\ invocations[2].loaded # <<>>
    /\ invocations[1].messages # invocations[2].messages

(***************************************************************************)
(* C33: chat_stream dispatches no tool call while the stream of the        *)
(* iteration still holds chunks: every call_tool happens after the last    *)
(* chunk has been consumed, and its arguments are the accumulated          *)
(* arguments of the call: the parse of the concatenated argument deltas    *)
(* (the empty object when that text is not JSON), or the structured value  *)
(* the call arrived with.                                                  *)
(***************************************************************************)
\* The parts of the Data items of a stream, in order of arrival.
StreamedParts(s) ==
    Flatten([k \in 1..Len(s) |-> IF s[k].chunk = "Data" THEN s[k].message.parts ELSE <<>>])

\* The FunctionCall parts of the message accumulated from the i-th stream.
AccumulatedCalls(i) == SelectSeq(MergeParts(<<>>, StreamedParts(replies[i])), IsFunctionCall)

\* The number of tool calls logged before iteration n (0-based).
LoggedBefore(n) == Len(SelectSeq(tool_log, LAMBDA e : e.iteration < n))

C33_DispatchAfterStreamEnd ==
    mode = "chat_stream" =>
        \A k \in 1..Len(tool_log) :
            LET e == tool_log[k]
                call == AccumulatedCalls(e.iteration + 1)[k - LoggedBefore(e.iteration)]
            IN /\ e.iteration < Len(replies)
               /\ e.iteration = iteration => (pc # "stream" /\ stream = <<>>)
               /\ e.name = call.name
               /\ e.id = call.id
               /\ e.arguments = (IF call.arguments.t = "String"
                                 THEN ParseOrEmpty(call.arguments.s)
                                 ELSE call.arguments)

\* A call whose arguments arrived in two deltas has been dispatched.
C33_Witness ==
    /\ mode = "chat_stream"
    /\ tool_log # <<>>
    /\ tool_log[1].arguments = ArgsObj
    /\ Len(replies[1]) = 3
    /\ replies[1][1].message.parts[1].arguments = JString(<<"{">>)
    /\ replies[1][2].message.parts[1].arguments = JString(<<"k", "}">>)

(***************************************************************************)
(* C34: for an adapter whose stream of a turn folds to the assistant       *)
(* message its non-streaming response holds, chat_stream and chat issue    *)
(* the same adapter requests with the same histories, dispatch the same    *)
(* tool calls in the same order with the same names and ids, and end in    *)
(* the same outcome.  The arguments of a call are the same as well, except *)
(* that chat_stream parses an argument that is a JSON string (the empty    *)
(* object when it does not parse) where chat passes the string on.         *)
(***************************************************************************)
\* The assistant message of the i-th turn: the one message of the response
\* (chat), the fold of the stream's Data items (chat_stream).
TurnMessage(i) ==
    IF mode = "chat" THEN replies[i][1]
    ELSE Assistant(MergeParts(<<>>, StreamedParts(replies[i])))

TurnMessages(n) == [i \in 1..n |-> TurnMessage(i)]

\* The runs the claim compares: every response holds one message, every stream
\* is delivered without an error item.
SameTurns ==
    /\ mode \in {"chat", "chat_stream"}
    /\ \A i \in 1..Len(replies) :
          IF mode = "chat" THEN Len(replies[i]) = 1
          ELSE \A k \in 1..Len(replies[i]) : replies[i][k].chunk # "Err"

\* The outcome the tool server gave to a logged call.
OutcomeOf(e) ==
    CHOOSE o \in ToolOutcomes \cup {NoServerOutcome} : o.ok = e.ok /\ o.err = e.err

LoggedOutcomes == [k \in 1..Len(tool_log) |-> OutcomeOf(tool_log[k])]

\* Requests, histories and outcome as a function of the turn messages and the
\* tool outcomes alone, whichever of the two paths produced them.
SameRequestsAndOutcome ==
    /\ \A i \in 1..Len(requests) :
          requests[i].messages =
              input \o loaded \o AloneAppends(TurnMessages(i - 1), LoggedOutcomes)
    /\ pc = "done" =>
          /\ result.status = "Ok" <=>
                /\ replies # <<>>
                /\ Len(replies) = Len(requests)
                /\ ~HasCall(<<TurnMessage(Len(replies))>>)
          /\ result = MaxIterationsError <=>
                /\ Len(requests) = max_iterations
                /\ Len(replies) = Len(requests)
                /\ \A i \in 1..Len(replies) : HasCall(<<TurnMessage(i)>>)

\* The calls of all turns, in order.
TurnCalls == SelectSeq(PartsOf(TurnMessages(Len(replies))), IsFunctionCall)

SameCallsNamesAndIds ==
    /\ Len(tool_log) <= Len(TurnCalls)
    /\ \A k \in 1..Len(tool_log) :
          /\ tool_log[k].name = TurnCalls[k].name
          /\ tool_log[k].id = TurnCalls[k].id

ItemParts(e) ==
    IF e.item = "Response" THEN PartsOf(e.response.data)
    ELSE IF e.item = "Chunk" /\ e.chunk.chunk = "Data" THEN e.chunk.message.parts
    ELSE <<>>

\* What the merge of chat_stream accumulates from the elements of one stream,
\* starting from Message::Assistant(Vec::new()).
AgentAccumulated(items) ==
    MergeParts(<<>>, Flatten([k \in 1..Len(items) |-> ItemParts(items[k])]))

\* The text deltas the adapter decoded, each once, in order of arrival.
DecodedText == Flatten([k \in 1..Len(consumed) |-> WireText(consumed[k])])

C36_TextDeltaStartsNewPart ==
    adapter = "openai" =>
        \A k \in 1..Len(OkItems) :
            LET d == WireText(consumed[k])
                prev == IF k = 1 THEN <<>> ELSE SnapshotParts(k - 1)
                now == SnapshotParts(k)
                n == Len(prev)
            IN d # <<>> =>
                  IF n > 0 /\ prev[n].kind = "Text" /\ ~prev[n].finished
                  THEN /\ Len(now) = n
                       /\ now[n].content = prev[n].content \o d
                  ELSE /\ Len(now) = n + 1
                       /\ now[n + 1].kind = "Text"
                       /\ now[n + 1].content = d

(***************************************************************************)
(* C37: every adapter request of one invocation is given the same tool     *)
(* list, obtained by one list_tools call made before the first request;    *)
(* the list is empty without a server and when the listing fails, and a    *)
(* failed listing is neither returned to the caller nor stops the loop.    *)
(***************************************************************************)
\* The invocation is past get_tools.
ToolsObtained == pc \in {"loop", "process", "stream", "done"}

C37_OneToolListPerInvocation ==
    mode \in {"chat", "chat_stream"} =>
        /\ ~ToolsObtained => (requests = <<>> /\ list_calls = 0)
        /\ ToolsObtained => list_calls = (IF server THEN 1 ELSE 0)
        /\ \A i \in 1..Len(requests) : requests[i].tools = tools
        /\ ~server => tools = <<>>
        /\ tools \in { <<>> } \cup { o.tools : o \in ListOutcomes }
        /\ (pc = "done" /\ result.status = "Err") =>
              \/ result = MaxIterationsError
              \/ result \in RequestErrors
              \/ result = ProviderError("stream failed")

\* The listing failed, and the loop went on for two requests to a result.
C37_Witness ==
    /\ mode = "chat"
    /\ server
    /\ list_calls = 1
    /\ Len(requests) = 2
    /\ requests[1].tools = <<>>
    /\ requests[2].tools = <<>>
    /\ pc = "done"
    /\ result.status = "Ok"

(***************************************************************************)
(* C38: the data lines the SSE decoder yields depend only on the           *)
(* concatenation of the bytes of the body, not on how the body is split    *)
(* into chunks: any split yields the lines of the delivery in one chunk.   *)
(***************************************************************************)
\* The items the decoder yields from a buffer, round after round, up to the
\* end of the stream; the body has ended once the buffer holds no full line.
RECURSIVE Decoded(_, _)
Decoded(buf, ended) ==
    LET r == Round(buf, ended)
    IN IF r.ret = "some" THEN <<r.item[1].data>> \o Decoded(r.buffer, ended)
       ELSE IF r.ret = "none" THEN <<>>
       ELSE Decoded(r.buffer, TRUE)

\* The lines yielded when the whole body arrives as one chunk.
InOneChunk(bs) == Decoded(IF IsUtf8(bs) THEN Utf8Chars(bs) ELSE <<>>, FALSE)

\* The body was delivered without a transport error.
AllBytes == \A k \in 1..Len(sse_received) : sse_received[k].kind = "bytes"

C38_ChunkingIrrelevant ==
    (sse_state = "closed" /\ AllBytes /\ IsUtf8(SseBodyBytes)) =>
        SseYielded = InOneChunk(SseBodyBytes)

(***************************************************************************)
(* C39: chat_stream yields at most one Finish item, as its last item and   *)
(* only when the loop has ended successfully; the Finish chunks of         *)
(* iterations that end in tool calls are not forwarded, and no Data or     *)
(* Usage item follows the Finish item.                                     *)
(***************************************************************************)
IsFinishItem(c) == c.chunk = "Finish"

C39_FinishOnlyAtTheEnd ==
    mode = "chat_stream" =>
        /\ Len(SelectSeq(yielded, IsFinishItem)) <= 1
        /\ \A k \in 1..Len(yielded) :
              IsFinishItem(yielded[k]) =>
                 /\ k = Len(yielded)
                 /\ pc = "done"
                 /\ result.status = "Ok"
                 /\ finish_reason = Some(yielded[k].reason)

\* Two iterations: the first stream ended with Finish(ToolCalls) and a tool
\* call, the second with Finish(Stop); only the second Finish was yielded.
C39_Witness ==
    /\ mode = "chat_stream"
    /\ pc = "done"
    /\ Len(replies) = 2
    /\ replies[1][Len(replies[1])] = Finish("ToolCalls")
    /\ tool_log # <<>>
    /\ yielded # <<>>
    /\ yielded[Len(yielded)] = Finish("Stop")
    /\ Len(SelectSeq(yielded, IsFinishItem)) = 1

(***************************************************************************)
(* C40: with max_iterations = 0, chat and chat_stream issue no adapter     *)
(* request and no tool call and fail with the Configuration error "Max     *)
(* iterations reached", whatever the conversation passed in.               *)
(***************************************************************************)
C40_ZeroIterations ==
    (mode \in {"chat", "chat_stream"} /\ max_iterations = 0) =>
        /\ requests = <<>>
        /\ replies = <<>>
        /\ tool_log = <<>>
        /\ pc \in {"load_resources", "loop", "done"}
        /\ pc = "done" => result = MaxIterationsError

C40_Witness ==
    /\ mode = "chat_stream"
    /\ max_iterations = 0
    /\ overridden
    /\ input # <<>>
    /\ pc = "done"
    /\ result = MaxIterationsError
    /\ requests = <<>>

====
